---- MODULE Spec2Model ----
(***************************************************************************)
(* Orchestration core of the voice-translation pipeline: the language      *)
(* detector (models/language_detector.py) and the translation router       *)
(* (models/translation.py).                                                 *)
(*                                                                         *)
(* A text is a sequence of characters; a character is a string naming one  *)
(* code point.  Engine outcomes (the fastText prediction, the online       *)
(* translation call, each offline hop) are inputs of the calls, chosen by  *)
(* the environment.  A Python call is modelled by an operator returning a  *)
(* record [exc, value]: exc is TRUE when the call raises.                  *)
(***************************************************************************)
EXTENDS Integers, Sequences, FiniteSets, TLC

VARIABLES model, argos_available, translation_pairs, pc, request, response

\* services/speech_recognition.py: the module globals, the threads calling
\* record_audio / stop_recording_audio, and the capture worker threads.
VARIABLES is_recording, stop_recording, current_recognizer, current_language,
          models, callers, workers

\* utils/timeout.py: the fields of the application's TimeoutHandler, the
\* threading.Timer objects it has created, and the threads calling it.
VARIABLES silence_timer, inactivity_timer, on_silence_callback,
          on_inactivity_callback, timers, handler

\* time.time(), in seconds.
VARIABLES now

\* models/speech_recognition.py: the fields of the application's
\* SpeechRecognizer (vosk_models is self.models), the threads inside
\* recognize, and the results handed to callbacks.
VARIABLES vosk_available, vosk_models, recognizers, recognition_queue,
          recognition, delivered

\* services/ai_assistant.py: the module globals, the state of the objects
\* they hold, the process_query call in progress and the thread running
\* initialize().
VARIABLES _ai_assistant, _translator, _tts, model_loaded, piper_available,
          query, starting

\* utils/network.py: the fields of the application's NetworkChecker, its
\* monitor threads and the last call of its methods.
VARIABLES _online_status, running, monitors, checker

\* utils.py: the dictionaries of a SimpleCache, what the most recent set of
\* each key stored, and the last call of its methods.
VARIABLES cache, expiry, last_set, cache_call

\* utils.py: the call of retry_with_backoff in progress.
VARIABLES retry

recorderVars == <<is_recording, stop_recording, current_recognizer, current_language,
                  models, callers, workers>>

handlerVars == <<silence_timer, inactivity_timer, on_silence_callback,
                 on_inactivity_callback, timers, handler>>

recognizerVars == <<vosk_available, vosk_models, recognizers, recognition_queue,
                    recognition, delivered>>

assistantVars == <<_ai_assistant, _translator, _tts, model_loaded, piper_available,
                   query, starting>>

networkVars == <<_online_status, running, monitors, checker>>

cacheVars == <<cache, expiry, last_set, cache_call>>

retryVars == <<retry>>

utilityVars == <<networkVars, cacheVars, retryVars>>

vars == <<model, argos_available, translation_pairs, pc, request, response,
          recorderVars, handlerVars, now, recognizerVars, assistantVars, utilityVars>>

(***************************************************************************)
(* Characters and texts                                                    *)
(***************************************************************************)

\* Longest input text, counted in words, that a call is given.
MaxWords == 4

SPACE == " "
HANGUL_GA == "U+AC00"
IDOT == "U+0130"
COMBINING_DOT == "U+0307"

\* First and last code point of the Hangul syllables block.
HangulFirst == 44032
HangulLast == 55203

\* The Hangul share a text must exceed, as the fraction ThresholdNum / ThresholdDen.
ThresholdNum == 3
ThresholdDen == 10

\* Number of distinct Filipino function words that selects 'tl'.
FilipinoMin == 2

\* ord(c)
CodePoint(c) ==
    CASE c = SPACE -> 32
      [] c = "A" -> 65
      [] c = "Y" -> 89
      [] c = "a" -> 97
      [] c = "i" -> 105
      [] c = "t" -> 116
      [] c = "x" -> 120
      [] c = "y" -> 121
      [] c = IDOT -> 304
      [] c = COMBINING_DOT -> 775
      [] c = HANGUL_GA -> 44032
      [] OTHER -> 0

\* str.isspace() of one character
is_space(c) == c = SPACE

\* str.lower() of one character; U+0130 lowers to two characters.
lower_char(c) ==
    CASE c = "A" -> <<"a">>
      [] c = "Y" -> <<"y">>
      [] c = IDOT -> <<"i", COMBINING_DOT>>
      [] OTHER -> <<c>>

RECURSIVE lower(_)
\* str.lower()
lower(text) ==
    IF text = <<>> THEN <<>> ELSE lower_char(Head(text)) \o lower(Tail(text))

RECURSIVE split_from(_, _, _)
split_from(text, i, cur) ==
    IF i > Len(text)
    THEN IF cur = <<>> THEN <<>> ELSE <<cur>>
    ELSE IF is_space(text[i])
         THEN IF cur = <<>>
              THEN split_from(text, i + 1, <<>>)
              ELSE <<cur>> \o split_from(text, i + 1, <<>>)
         ELSE split_from(text, i + 1, Append(cur, text[i]))

\* str.split(): the maximal runs of non-whitespace characters
split(text) == split_from(text, 1, <<>>)

\* Mutant of is_blank: only `not text`, the strip() forgotten.
is_blank_without_strip(text) == text = <<>>

\* `not text or not text.strip()`
is_blank(text) == \A i \in DOMAIN text : is_space(text[i])

\* The words input texts are made of.
Vocabulary ==
    { <<SPACE>>, <<HANGUL_GA>>, <<HANGUL_GA, HANGUL_GA, HANGUL_GA>>,
      <<"a", "t">>, <<"A", "Y">>, <<"x">>, <<IDOT>> }

RECURSIVE join(_)
\* " ".join(words)
join(words) ==
    IF words = <<>> THEN <<>>
    ELSE IF Len(words) = 1 THEN words[1]
    ELSE words[1] \o <<SPACE>> \o join(Tail(words))

WordLists == UNION { [1..n -> Vocabulary] : n \in 0..MaxWords }

\* The input texts of the language detector.
Texts == { join(ws) : ws \in WordLists }

(***************************************************************************)
(* LanguageDetector                                                        *)
(***************************************************************************)

supported_languages == {"en", "tl", "ko"}

RAISE == "raise"

\* What self.model.predict yields: a fastText label, or an exception.
Predictions ==
    {"__label__en", "__label__tl", "__label__ko", "__label__fil",
     "__label__kor", "__label__eng", "__label__ja", RAISE}

Return(v) == [exc |-> FALSE, value |-> v]
Raise == [exc |-> TRUE, value |-> "exception"]

\* predictions[0][0].replace('__label__', '')
strip_label(label) ==
    CASE label = "__label__en" -> "en"
      [] label = "__label__tl" -> "tl"
      [] label = "__label__ko" -> "ko"
      [] label = "__label__fil" -> "fil"
      [] label = "__label__kor" -> "kor"
      [] label = "__label__eng" -> "eng"
      [] label = "__label__ja" -> "ja"
      [] OTHER -> label

\* lang_mapping.get(lang_code, lang_code)
lang_mapping(lang_code) ==
    CASE lang_code = "fil" -> "tl"
      [] lang_code = "kor" -> "ko"
      [] lang_code = "eng" -> "en"
      [] OTHER -> lang_code

\* self.model.predict(text.replace('\n', ' '))
model_predict(prediction) ==
    IF prediction = RAISE THEN Raise ELSE Return(prediction)

\* sum(1 for c in text if '가' <= c <= '힣')
korean_chars(text) ==
    Cardinality({ i \in DOMAIN text :
                    /\ HangulFirst <= CodePoint(text[i])
                    /\ CodePoint(text[i]) <= HangulLast })

filipino_words ==
    { <<"a", "n", "g">>, <<"n", "g">>, <<"m", "g", "a">>, <<"s", "a">>,
      <<"a", "t">>, <<"a", "y">>, <<"k", "o">>, <<"m", "o">>, <<"p", "o">>,
      <<"i", "t", "o">> }

\* sum(word in text.split() for word in filipino_words)
filipino_count(text) ==
    LET tokens == split(text)
    IN Cardinality({ w \in filipino_words :
                       \E k \in DOMAIN tokens : tokens[k] = w })

\* Mutant of korean_over_threshold: >= in place of >.
korean_at_threshold(korean, text_len) ==
    korean * ThresholdDen >= ThresholdNum * text_len

\* korean_percentage > 0.3, with korean_percentage = korean_chars / text_len.
\* The float quotient exceeds the float 0.3 exactly when the rational one
\* exceeds 3/10, for every length below 2^50.
korean_over_threshold(korean, text_len) ==
    korean * ThresholdDen > ThresholdNum * text_len

\* The fallback tier of detect: script share, then function words.
fallback_detect(text) ==
    LET lowered == lower(text)
        text_len == IF Len(lowered) > 1 THEN Len(lowered) ELSE 1
    IN IF korean_over_threshold(korean_chars(lowered), text_len)
       THEN "ko"
       ELSE IF filipino_count(lowered) >= FilipinoMin THEN "tl" ELSE "en"

\* Mutant of supported_or_default: the mapped label returned unchecked.
label_unchecked(lang_code) == lang_code

\* The fastText tier's answer for a label.
supported_or_default(lang_code) ==
    IF lang_code \notin supported_languages THEN "en" ELSE lang_code

\* LanguageDetector.detect(text), self.model being `m`
detect(m, text, prediction) ==
    IF is_blank(text) THEN Return("en")
    ELSE LET predicted == model_predict(prediction)
         IN IF m = "loaded" /\ ~predicted.exc
            THEN Return(supported_or_default(lang_mapping(strip_label(predicted.value))))
            ELSE Return(fallback_detect(text))

(***************************************************************************)
(* Translator                                                              *)
(***************************************************************************)

\* Language codes a caller passes: the supported ones, 'auto', and one
\* code outside the supported set.
SourceCodes == {"auto", "en", "tl", "ko", "fr"}
TargetCodes == {"en", "tl", "ko", "fr", "auto"}

\* The texts a translation is requested for: empty, blank, Latin, Hangul,
\* and two Filipino function words (one of them in upper case).
RequestTexts ==
    { <<>>, <<SPACE>>, <<"x">>, <<HANGUL_GA>>, <<"a", "t", SPACE, "A", "Y">> }

\* f"{from_lang}-{to_lang}"
pair_key(from_lang, to_lang) == <<from_lang, "-", to_lang>>

\* The language pairs an Argos installation may hold.
InstallablePairs ==
    { pair_key(a, b) : <<a, b>> \in
        { p \in supported_languages \X supported_languages : p[1] # p[2] } }

\* f"[Translation not available for {from_lang} to {to_lang}]"
not_available(from_lang, to_lang) ==
    <<"[Translation not available for ", from_lang, " to ", to_lang, "]">>

\* What the online service answers for a request that succeeds.
online_output(text, from_lang, to_lang) == <<"online:", from_lang, to_lang>> \o text

\* What the Argos model of a pair answers.
argos_output(text, src, tgt) == <<"argos:", src, tgt>> \o text

OnlineOutcomes == {"ok", "empty", RAISE}
HopOutcomes == {"ok", RAISE}

\* One call of a translation engine, as the engine sees it.
EngineCall(engine, src, tgt, input, outcome) ==
    [engine |-> engine, src |-> src, tgt |-> tgt, input |-> input, outcome |-> outcome]

\* Mutant of get_intermediate_translations: never through 'en'.
intermediate_without_pivot(from_code, to_code) == << <<from_code, to_code>> >>

\* Translator._get_intermediate_translations
get_intermediate_translations(from_code, to_code) ==
    IF from_code # "en" /\ to_code # "en"
    THEN << <<from_code, "en">>, <<"en", to_code>> >>
    ELSE << <<from_code, to_code>> >>

\* Translator._translate_online: the service's text, an empty text, or an
\* exception.
translate_online(text, from_lang, to_lang, outcome) ==
    CASE outcome = "ok" -> Return(online_output(text, from_lang, to_lang))
      [] outcome = "empty" -> Return(<<>>)
      [] OTHER -> Raise

\* `if from_lang == 'auto' or from_lang == to_lang`
needs_detection(from_lang, to_lang) == from_lang = "auto" \/ from_lang = to_lang

\* LanguageDetector() followed by detector.detect(text)
construct_and_detect(m, text, e) ==
    IF e.ctor THEN detect(m, text, e.prediction) ELSE Raise

\* The source language after the auto-detection block, and what the
\* detector did: [value, detected].
resolve_source(m, text, from_lang, to_lang, e) ==
    IF needs_detection(from_lang, to_lang)
    THEN LET d == construct_and_detect(m, text, e)
         IN IF d.exc
            THEN [exc |-> FALSE, value |-> "en", detected |-> "failed"]
            ELSE [exc |-> FALSE, value |-> d.value, detected |-> d.value]
    ELSE [exc |-> FALSE, value |-> from_lang, detected |-> "not run"]

\* Mutant of same_language: the early return dropped.
same_language_ignored(from_lang, to_lang) == FALSE

\* `if from_lang == to_lang: return text`
same_language(from_lang, to_lang) == from_lang = to_lang

\* Mutant of online_attempt: the online call made outside the try block.
online_attempt_uncaught(text, from_lang, to_lang, online, e) ==
    IF online
    THEN LET r == translate_online(text, from_lang, to_lang, e.online)
             call == EngineCall("online", from_lang, to_lang, text, e.online)
         IN [exc |-> r.exc, done |-> ~r.exc /\ r.value # <<>>,
             value |-> IF r.exc THEN <<>> ELSE r.value, calls |-> <<call>>]
    ELSE [exc |-> FALSE, done |-> FALSE, value |-> <<>>, calls |-> <<>>]

\* Mutant of online_attempt: `if translated:` forgotten, an empty answer
\* is returned.
online_attempt_accept_empty(text, from_lang, to_lang, online, e) ==
    IF online
    THEN LET r == translate_online(text, from_lang, to_lang, e.online)
             call == EngineCall("online", from_lang, to_lang, text, e.online)
         IN [exc |-> FALSE, done |-> ~r.exc,
             value |-> IF r.exc THEN <<>> ELSE r.value, calls |-> <<call>>]
    ELSE [exc |-> FALSE, done |-> FALSE, value |-> <<>>, calls |-> <<>>]

\* The online attempt: [exc, done, value, calls]; done when it returned
\* non-empty text.
online_attempt(text, from_lang, to_lang, online, e) ==
    IF online
    THEN LET r == translate_online(text, from_lang, to_lang, e.online)
             call == EngineCall("online", from_lang, to_lang, text, e.online)
         IN IF r.exc
            THEN [exc |-> FALSE, done |-> FALSE, value |-> <<>>, calls |-> <<call>>]
            ELSE [exc |-> FALSE, done |-> r.value # <<>>, value |-> r.value,
                  calls |-> <<call>>]
    ELSE [exc |-> FALSE, done |-> FALSE, value |-> <<>>, calls |-> <<>>]

RECURSIVE run_path(_, _, _, _, _)
\* The loop over the hops of a path, from hop i on, `result` being the text
\* so far: [exc, value, calls, line].
run_path(pairs, path, i, result, e) ==
    IF i > Len(path)
    THEN [exc |-> FALSE, value |-> result, calls |-> <<>>, line |-> 200]
    ELSE LET src == path[i][1]
             tgt == path[i][2]
         IN IF pair_key(src, tgt) \in pairs
            THEN LET call == EngineCall("argos", src, tgt, result, e.hops[i])
                     rest == run_path(pairs, path, i + 1, argos_output(result, src, tgt), e)
                 IN IF e.hops[i] = RAISE
                    THEN [exc |-> TRUE, value |-> <<>>, calls |-> <<call>>, line |-> 196]
                    ELSE [rest EXCEPT !.calls = <<call>> \o @]
            ELSE [exc |-> FALSE, value |-> not_available(src, tgt), calls |-> <<>>,
                  line |-> 199]

\* Mutant of has_direct_path: the direct pair never looked up.
direct_path_ignored(pairs, from_lang, to_lang) == FALSE

\* Whether the direct path is taken.
has_direct_path(pairs, from_lang, to_lang) == pair_key(from_lang, to_lang) \in pairs

\* The body of the offline try block: [exc, value, calls, line].
offline_attempt(pairs, text, from_lang, to_lang, e) ==
    IF has_direct_path(pairs, from_lang, to_lang)
    THEN LET call == EngineCall("argos", from_lang, to_lang, text, e.hops[1])
         IN IF e.hops[1] = RAISE
            THEN [exc |-> TRUE, value |-> <<>>, calls |-> <<call>>, line |-> 186]
            ELSE [exc |-> FALSE, value |-> argos_output(text, from_lang, to_lang),
                  calls |-> <<call>>, line |-> 186]
    ELSE run_path(pairs, get_intermediate_translations(from_lang, to_lang), 1, text, e)

\* The offline part of translate: [exc, value, calls, line].
offline_translate(available, pairs, text, from_lang, to_lang, e) ==
    IF available
    THEN LET r == offline_attempt(pairs, text, from_lang, to_lang, e)
         IN IF r.exc
            THEN [exc |-> FALSE, value |-> not_available(from_lang, to_lang),
                  calls |-> r.calls, line |-> 206]
            ELSE r
    ELSE [exc |-> FALSE, value |-> not_available(from_lang, to_lang),
          calls |-> <<>>, line |-> 206]

\* Translator.translate(text, from_lang, to_lang, online):
\* [exc, value, calls, detected, source, line]; calls are the engine calls
\* in order, source the language after detection, line the return taken.
translate(available, pairs, m, text, from_lang, to_lang, online, e) ==
    IF is_blank(text)
    THEN [exc |-> FALSE, value |-> <<>>, calls |-> <<>>, detected |-> "not run",
          source |-> from_lang, line |-> 151]
    ELSE LET resolved == resolve_source(m, text, from_lang, to_lang, e)
             source == resolved.value
         IN IF resolved.exc
            THEN [exc |-> TRUE, value |-> <<>>, calls |-> <<>>,
                  detected |-> resolved.detected, source |-> from_lang, line |-> 159]
            ELSE IF same_language(source, to_lang)
            THEN [exc |-> FALSE, value |-> text, calls |-> <<>>,
                  detected |-> resolved.detected, source |-> source, line |-> 167]
            ELSE LET on == online_attempt(text, source, to_lang, online, e)
                     off == offline_translate(available, pairs, text, source, to_lang, e)
                 IN IF on.exc
                    THEN [exc |-> TRUE, value |-> <<>>, calls |-> on.calls,
                          detected |-> resolved.detected, source |-> source, line |-> 172]
                    ELSE IF on.done
                    THEN [exc |-> FALSE, value |-> on.value, calls |-> on.calls,
                          detected |-> resolved.detected, source |-> source, line |-> 174]
                    ELSE [exc |-> off.exc, value |-> off.value,
                          calls |-> on.calls \o off.calls,
                          detected |-> resolved.detected, source |-> source,
                          line |-> off.line]

(***************************************************************************)
(* Calls                                                                   *)
(***************************************************************************)

NoRequest == [op |-> "none"]
NoResponse == [exc |-> FALSE, value |-> "none"]

\* language_detector.detect(text) is called and returns.
DetectCall ==
    /\ pc = "idle"
    /\ \E text \in Texts, prediction \in Predictions :
         /\ request' = [op |-> "detect", text |-> text, prediction |-> prediction]
         /\ response' = detect(model, text, prediction)
    /\ pc' = "returned"
    /\ UNCHANGED <<model, argos_available, translation_pairs>>
    /\ UNCHANGED <<recorderVars, handlerVars, now, recognizerVars, assistantVars, utilityVars>>

\* The caller takes the returned value; the next call may start.
TakeResult ==
    /\ pc = "returned"
    /\ pc' = "idle"
    /\ request' = NoRequest
    /\ response' = NoResponse
    /\ UNCHANGED <<model, argos_available, translation_pairs>>
    /\ UNCHANGED <<recorderVars, handlerVars, now, recognizerVars, assistantVars, utilityVars>>

\* The engine outcomes a translate call can meet; an outcome the call cannot
\* reach is fixed, so that one call is one transition.
Environments(text, from_lang, to_lang, online) ==
    LET detects == ~is_blank(text) /\ needs_detection(from_lang, to_lang)
    IN [ ctor : IF detects THEN BOOLEAN ELSE {TRUE},
         prediction : IF detects /\ model = "loaded" THEN Predictions ELSE {RAISE},
         online : IF online /\ ~is_blank(text) THEN OnlineOutcomes ELSE {"ok"},
         hops : IF argos_available /\ ~is_blank(text)
                THEN [1..2 -> HopOutcomes] ELSE {[i \in 1..2 |-> "ok"]} ]

\* translator.translate(text, from_lang, to_lang, online) is called and
\* returns.
TranslateCall ==
    /\ pc = "idle"
    /\ \E text \in RequestTexts, from_lang \in SourceCodes, to_lang \in TargetCodes,
          online \in BOOLEAN :
         \E e \in Environments(text, from_lang, to_lang, online) :
           /\ request' = [op |-> "translate", text |-> text, from_lang |-> from_lang,
                          to_lang |-> to_lang, online |-> online]
           /\ response' = translate(argos_available, translation_pairs, model, text,
                                    from_lang, to_lang, online, e)
    /\ pc' = "returned"
    /\ UNCHANGED <<model, argos_available, translation_pairs>>
    /\ UNCHANGED <<recorderVars, handlerVars, now, recognizerVars, assistantVars, utilityVars>>

\* POST /api/translate: rejects an empty text, resolves 'auto' with the
\* application's detector, asks the network checker for the mode and
\* calls translator.translate.  The request records the arguments
\* translate was given.
ApiTranslateCall ==
    /\ pc = "idle"
    /\ \E text \in RequestTexts, source_lang \in SourceCodes, target_lang \in TargetCodes,
          online_mode \in BOOLEAN :
         IF text = <<>>
         THEN /\ request' = [op |-> "api_translate", text |-> text,
                             from_lang |-> source_lang, to_lang |-> target_lang,
                             online |-> online_mode]
              /\ response' = [exc |-> FALSE, value |-> <<"No text provided">>,
                              calls |-> <<>>, detected |-> "not run",
                              source |-> source_lang, line |-> 111]
         ELSE \E prediction \in
                   IF source_lang = "auto" /\ model = "loaded" /\ ~is_blank(text)
                   THEN Predictions ELSE {RAISE} :
                LET from_lang == IF source_lang = "auto"
                                 THEN detect(model, text, prediction).value
                                 ELSE source_lang
                IN \E e \in Environments(text, from_lang, target_lang, online_mode) :
                     /\ request' = [op |-> "api_translate", text |-> text,
                                    from_lang |-> from_lang, to_lang |-> target_lang,
                                    online |-> online_mode]
                     /\ response' = translate(argos_available, translation_pairs, model,
                                              text, from_lang, target_lang, online_mode, e)
    /\ pc' = "returned"
    /\ UNCHANGED <<model, argos_available, translation_pairs>>
    /\ UNCHANGED <<recorderVars, handlerVars, now, recognizerVars, assistantVars, utilityVars>>

(***************************************************************************)
(* Recording service (services/speech_recognition.py)                      *)
(*                                                                         *)
(* record_audio and stop_recording_audio are called from any thread and    *)
(* take no lock, so each is modelled one access to the shared globals at   *)
(* a time.  A capture worker is the thread running _record_audio_thread;   *)
(* it touches the globals at the head of its loop (the stop flag) and in   *)
(* its finally clause (is_recording).  What the audio device and the       *)
(* recognizer do on a frame is chosen by the environment.                  *)
(***************************************************************************)

\* Capture workers started in one run.
MaxSessions == 2

\* Text chunks the recognizer commits in one session.
MaxChunks == 2

\* Last value of the clock.
MaxTime == 13

\* time.time() is positive.
StartTime == 1

\* silence_start_time = None.
NoTime == 0

silence_timeout == 5
inactivity_timeout == 10

\* volume_norm is counted in hundredths: the threshold 0.01 is 1.
EnergyThreshold == 1
Volumes == {0, 1, 2}

\* The seconds stream.read may take to return a frame.
FrameGaps == {0, 5, 6}

\* The languages a caller asks record_audio for.
RecLanguages == {"en", "ko"}

\* The models load_models() may have loaded; none before initialize().
ModelSets == {{}, {"en"}, {"tl", "ko"}}

\* The texts of a session: the n-th chunk the recognizer commits, and the
\* text FinalResult() flushes.
NoText == <<>>
Chunk(n) == <<"chunk", n>>
FlushText == <<"flush">>

\* next(iter(models), None): the models are inserted in the order of
\* Config.VOSK_MODEL_FILES.
first_model(ms) ==
    IF "en" \in ms THEN "en"
    ELSE IF "tl" \in ms THEN "tl"
    ELSE IF "ko" \in ms THEN "ko"
    ELSE "None"

\* create_recognizer(language): the language of the recognizer it creates,
\* "None" when it returns None.
create_recognizer(ms, language) ==
    IF language \in ms THEN language
    ELSE IF "en" \in ms THEN "en" ELSE first_model(ms)

IdleCaller ==
    [pc |-> "idle", op |-> "none", language |-> "None", callback |-> FALSE,
     ret |-> "none", session |-> 0]

\* The worker record_audio starts: the locals of _record_audio_thread before
\* its try block.  delivered is the list of the callback's invocations,
\* commits the chunks the recognizer committed, flush what FinalResult()
\* did, ended_by what ended the capture loop.
NewWorker(callback, language) ==
    [pc |-> "open", language |-> language, callback |-> callback,
     stream |-> "None", last_audio_time |-> NoTime, silence_start_time |-> NoTime,
     final_result |-> NoText, delivered |-> <<>>, commits |-> <<>>,
     flush |-> "not run", ended_by |-> "running"]

\* The positions of a caller inside record_audio, past the is_recording
\* check.
RecordPcs == {"clear", "create", "set", "start"}

\* Line 108: is_recording.is_set().
never_recording(recording) == FALSE
already_recording(recording) == recording

\* record_audio, lines 108-110: the is_recording check.
RecordCheck(c) ==
    /\ callers[c].pc = "idle"
    /\ Len(workers) + Cardinality({d \in DOMAIN callers : callers[d].pc \in RecordPcs})
         < MaxSessions
    /\ \E language \in RecLanguages, callback \in BOOLEAN :
         callers' = [callers EXCEPT ![c] =
                       IF already_recording(is_recording)
                       THEN [IdleCaller EXCEPT !.op = "record_audio", !.ret = "False"]
                       ELSE [IdleCaller EXCEPT !.op = "record_audio", !.pc = "clear",
                                               !.language = language,
                                               !.callback = callback]]
    /\ UNCHANGED <<is_recording, stop_recording, current_recognizer, current_language,
                   models, workers>>
    /\ UNCHANGED <<model, argos_available, translation_pairs, pc, request, response,
                   handlerVars, now, recognizerVars, assistantVars, utilityVars>>

\* record_audio, line 113: stop_recording.clear().
RecordClear(c) ==
    /\ callers[c].pc = "clear"
    /\ stop_recording' = FALSE
    /\ callers' = [callers EXCEPT ![c].pc = "create"]
    /\ UNCHANGED <<is_recording, current_recognizer, current_language, models, workers>>
    /\ UNCHANGED <<model, argos_available, translation_pairs, pc, request, response,
                   handlerVars, now, recognizerVars, assistantVars, utilityVars>>

\* record_audio, lines 116-119: the recognizer is created when the language
\* changed or none exists; without a model the call returns False.
RecordCreate(c) ==
    /\ callers[c].pc = "create"
    /\ IF current_language # callers[c].language \/ current_recognizer = "None"
       THEN LET created == create_recognizer(models, callers[c].language)
            IN /\ current_recognizer' = created
               /\ current_language' = IF created = "None" THEN current_language
                                      ELSE created
               /\ callers' = [callers EXCEPT ![c] =
                                IF created = "None"
                                THEN [IdleCaller EXCEPT !.op = "record_audio",
                                                        !.ret = "False"]
                                ELSE [@ EXCEPT !.pc = "set"]]
       ELSE /\ callers' = [callers EXCEPT ![c].pc = "set"]
            /\ UNCHANGED <<current_recognizer, current_language>>
    /\ UNCHANGED <<is_recording, stop_recording, models, workers>>
    /\ UNCHANGED <<model, argos_available, translation_pairs, pc, request, response,
                   handlerVars, now, recognizerVars, assistantVars, utilityVars>>

\* record_audio, line 122: is_recording.set().
RecordSet(c) ==
    /\ callers[c].pc = "set"
    /\ is_recording' = TRUE
    /\ callers' = [callers EXCEPT ![c].pc = "start"]
    /\ UNCHANGED <<stop_recording, current_recognizer, current_language, models, workers>>
    /\ UNCHANGED <<model, argos_available, translation_pairs, pc, request, response,
                   handlerVars, now, recognizerVars, assistantVars, utilityVars>>

\* record_audio, lines 125-128: the worker thread is started and the call
\* returns True.
RecordStart(c) ==
    /\ callers[c].pc = "start"
    /\ workers' = Append(workers, NewWorker(callers[c].callback, callers[c].language))
    /\ callers' = [callers EXCEPT ![c] =
                     [IdleCaller EXCEPT !.op = "record_audio", !.ret = "True",
                                        !.session = Len(workers) + 1]]
    /\ UNCHANGED <<is_recording, stop_recording, current_recognizer, current_language,
                   models>>
    /\ UNCHANGED <<model, argos_available, translation_pairs, pc, request, response,
                   handlerVars, now, recognizerVars, assistantVars, utilityVars>>

\* The newest session is_recording was set for: the workers started, and
\* the one a caller past line 122 is about to start.
newest_session ==
    Len(workers) + Cardinality({d \in DOMAIN callers : callers[d].pc = "start"})

\* stop_recording_audio, lines 217 and 221-223: the is_recording check.  The
\* caller's session is the newest one the flag it read was set for.
StopCheck(c) ==
    /\ callers[c].pc = "idle"
    /\ callers' = [callers EXCEPT ![c] =
                     IF is_recording
                     THEN [IdleCaller EXCEPT !.op = "stop_recording_audio",
                                             !.pc = "stop",
                                             !.session = newest_session]
                     ELSE [IdleCaller EXCEPT !.op = "stop_recording_audio",
                                             !.ret = "False"]]
    /\ UNCHANGED <<is_recording, stop_recording, current_recognizer, current_language,
                   models, workers>>
    /\ UNCHANGED <<model, argos_available, translation_pairs, pc, request, response,
                   handlerVars, now, recognizerVars, assistantVars, utilityVars>>

\* stop_recording_audio, lines 218-220: stop_recording.set(), return True.
StopSet(c) ==
    /\ callers[c].pc = "stop"
    /\ stop_recording' = TRUE
    /\ callers' = [callers EXCEPT ![c].pc = "idle", ![c].ret = "True",
                                   ![c].session = 0]
    /\ UNCHANGED <<is_recording, current_recognizer, current_language, models, workers>>
    /\ UNCHANGED <<model, argos_available, translation_pairs, pc, request, response,
                   handlerVars, now, recognizerVars, assistantVars, utilityVars>>

\* _record_audio_thread, lines 137-148: p.open(...) and the locals of the
\* loop; when p.open raises, the except clause logs and the finally clause
\* follows.
open_stream(s, opened, t) ==
    IF opened = "raise"
    THEN [s EXCEPT !.pc = "cleanup", !.ended_by = "open_error"]
    ELSE [s EXCEPT !.pc = "loop", !.stream = "open", !.last_audio_time = t,
                   !.silence_start_time = NoTime, !.final_result = NoText]

Open(w) ==
    /\ w \in DOMAIN workers
    /\ workers[w].pc = "open"
    /\ \E opened \in {"ok", "raise"} :
         workers' = [workers EXCEPT ![w] = open_stream(workers[w], opened, now)]
    /\ UNCHANGED <<is_recording, stop_recording, current_recognizer, current_language,
                   models, callers>>
    /\ UNCHANGED <<model, argos_available, translation_pairs, pc, request, response,
                   handlerVars, now, recognizerVars, assistantVars, utilityVars>>

\* Lines 185 and 194: callback(text, language, final) is invoked.
deliver_in_front(log, text, final) == <<[text |-> text, final |-> final]>> \o log
deliver(log, text, final) == Append(log, [text |-> text, final |-> final])

\* Line 161: volume_norm > 0.01.
is_loud(volume) == volume > EnergyThreshold

\* Line 170: silence_start_time and (time.time() - silence_start_time) >
\* silence_timeout.
silence_expired_at_timeout(start, t) == start # NoTime /\ t - start >= silence_timeout
silence_expired(start, t) == start # NoTime /\ t - start > silence_timeout

\* Line 175: (time.time() - last_audio_time) > inactivity_timeout.
inactivity_expired(last, t) == t - last > inactivity_timeout

\* Lines 154-185: one frame of the capture loop, read at time t.  f is what
\* the device and the recognizer do: the read returns or raises, the frame
\* has a volume, AcceptWaveform returns False ("none"), or True with a blank
\* or a non-blank text, or raises, and the callback returns or raises.  An
\* exception leaves the try block: the loop has no handler of its own.
process_frame(s, f, t) ==
    LET loud == is_loud(f.volume)
        last == IF loud THEN t ELSE s.last_audio_time
        start == IF loud THEN NoTime
                 ELSE IF s.silence_start_time = NoTime THEN t
                 ELSE s.silence_start_time
        seen == [s EXCEPT !.last_audio_time = last, !.silence_start_time = start]
        chunk == Chunk(Len(s.commits) + 1)
        got == [seen EXCEPT !.final_result = chunk, !.commits = Append(@, chunk)]
        told == [got EXCEPT !.delivered = deliver(@, chunk, FALSE)]
    IN IF f.read = "raise"
       THEN [s EXCEPT !.pc = "cleanup", !.ended_by = "read_error"]
       ELSE IF ~loud /\ silence_expired(start, t)
       THEN [seen EXCEPT !.pc = "final", !.ended_by = "silence"]
       ELSE IF inactivity_expired(last, t)
       THEN [seen EXCEPT !.pc = "final", !.ended_by = "inactivity"]
       ELSE IF f.accept = "raise"
       THEN [seen EXCEPT !.pc = "cleanup", !.ended_by = "recognizer_error"]
       ELSE IF f.accept = "text"
       THEN IF ~s.callback THEN got
            ELSE IF f.callback = "raise"
            THEN [told EXCEPT !.pc = "cleanup", !.ended_by = "callback_error"]
            ELSE told
       ELSE seen

\* What a frame may bring: the recognizer commits at most MaxChunks texts in
\* a session, and the clock stops at MaxTime.
Frames(s) ==
    [gap : {g \in FrameGaps : now + g <= MaxTime},
     read : {"ok", "raise"}, volume : Volumes,
     accept : IF Len(s.commits) < MaxChunks THEN {"none", "blank", "text", "raise"}
              ELSE {"none", "blank", "raise"},
     callback : {"ok", "raise"}]

\* Lines 150-185: the loop tests the stop flag, then reads one frame, which
\* takes the time the device needs, and processes it.
Iterate(w) ==
    /\ w \in DOMAIN workers
    /\ workers[w].pc = "loop"
    /\ IF stop_recording
       THEN /\ workers' = [workers EXCEPT ![w].pc = "final", ![w].ended_by = "stop"]
            /\ now' = now
       ELSE \E f \in Frames(workers[w]) :
              /\ now' = now + f.gap
              /\ workers' = [workers EXCEPT
                               ![w] = process_frame(workers[w], f, now + f.gap)]
    /\ UNCHANGED <<is_recording, stop_recording, current_recognizer, current_language,
                   models, callers>>
    /\ UNCHANGED <<model, argos_available, translation_pairs, pc, request, response,
                   handlerVars, recognizerVars, assistantVars, utilityVars>>

\* Lines 188-196: FinalResult() is flushed; a non-blank flush replaces the
\* last committed chunk; the callback is given the final text when there
\* is a callback and the text is not blank.
finalize_always_emits(s, flush) ==
    IF flush = "raise"
    THEN [s EXCEPT !.pc = "cleanup", !.flush = "raise"]
    ELSE LET final == IF flush = "text" THEN FlushText ELSE s.final_result
             flushed == [s EXCEPT !.pc = "cleanup", !.flush = flush,
                                  !.final_result = final]
         IN IF s.callback
            THEN [flushed EXCEPT
                    !.delivered = deliver(@, final, TRUE)]
            ELSE flushed
finalize(s, flush) ==
    IF flush = "raise"
    THEN [s EXCEPT !.pc = "cleanup", !.flush = "raise"]
    ELSE LET final == IF flush = "text" THEN FlushText ELSE s.final_result
             flushed == [s EXCEPT !.pc = "cleanup", !.flush = flush,
                                  !.final_result = final]
         IN IF s.callback /\ final # NoText
            THEN [flushed EXCEPT
                    !.delivered = deliver(@, final, TRUE)]
            ELSE flushed

Finalize(w) ==
    /\ w \in DOMAIN workers
    /\ workers[w].pc = "final"
    /\ \E flush \in {"blank", "text", "raise"} :
         workers' = [workers EXCEPT ![w] = finalize(workers[w], flush)]
    /\ UNCHANGED <<is_recording, stop_recording, current_recognizer, current_language,
                   models, callers>>
    /\ UNCHANGED <<model, argos_available, translation_pairs, pc, request, response,
                   handlerVars, now, recognizerVars, assistantVars, utilityVars>>

\* The thread has ended: its locals and the record of what it did are gone.
EndedWorker == [NewWorker(FALSE, "None") EXCEPT !.pc = "done", !.ended_by = "ended"]

\* Lines 201-211, the finally clause: is_recording.clear(), then the stream,
\* if one was opened, is stopped and closed, an exception of which is
\* swallowed; the thread ends.
Cleanup(w) ==
    /\ w \in DOMAIN workers
    /\ workers[w].pc = "cleanup"
    /\ is_recording' = FALSE
    /\ workers' = [workers EXCEPT ![w] = EndedWorker]
    /\ UNCHANGED <<stop_recording, current_recognizer, current_language, models, callers>>
    /\ UNCHANGED <<model, argos_available, translation_pairs, pc, request, response,
                   handlerVars, now, recognizerVars, assistantVars, utilityVars>>

\* The module as imported: no session, and the models initialize() loaded.
InitRecorder(threads) ==
    /\ is_recording = FALSE
    /\ stop_recording = FALSE
    /\ current_recognizer = "None"
    /\ current_language = "None"
    /\ models \in ModelSets
    /\ callers = [c \in threads |-> IdleCaller]
    /\ workers = <<>>

\* The recording service is not used.
NoRecorder ==
    /\ is_recording = FALSE
    /\ stop_recording = FALSE
    /\ current_recognizer = "None"
    /\ current_language = "None"
    /\ models = {}
    /\ callers = <<>>
    /\ workers = <<>>

(***************************************************************************)
(* Timeout handler (utils/timeout.py)                                      *)
(*                                                                         *)
(* The application holds one TimeoutHandler; its methods are called from   *)
(* the threads that serve the socket events and take no lock, so each      *)
(* method is modelled one access to self.silence_timer or                  *)
(* self.inactivity_timer at a time.  A threading.Timer is a thread that    *)
(* waits on its finished event for the interval, then calls its function   *)
(* if the event is not set; cancel() sets the event.                       *)
(***************************************************************************)

\* threading.Timer objects created in one run.
MaxTimers == 3

\* Seconds between two moments at which the threads are observed.
TickStep == 3

handler_silence_timeout == 5
handler_inactivity_timeout == 10

\* self.silence_timer = None.
NoTimer == 0

Kinds == {"silence", "inactivity"}

HandlerOps == {"reset_silence_timer", "reset_inactivity_timer", "reset_timeout",
               "stop", "set_silence_callback", "set_inactivity_callback"}

IdleHandler == [op |-> "none", step |-> "idle", kind |-> "none", exc |-> FALSE]

\* The timer a method works on first.
first_kind(op) == IF op = "reset_inactivity_timer" THEN "inactivity" ELSE "silence"

\* The timers a call of the method creates.
creates(op) ==
    IF op = "reset_timeout" THEN 2
    ELSE IF op \in {"reset_silence_timer", "reset_inactivity_timer"} THEN 1
    ELSE 0

\* Mutant of timer_field: every method works on self.silence_timer.
timer_field_silence(kind) == silence_timer

\* self.silence_timer or self.inactivity_timer.
timer_field(kind) == IF kind = "silence" THEN silence_timer ELSE inactivity_timer

interval(kind) ==
    IF kind = "silence" THEN handler_silence_timeout ELSE handler_inactivity_timeout

\* threading.Timer(interval, function): created, not started.  cancelled
\* tells whether cancel() was called on it, and when: before its wait
\* ended, before it called its function, or after; called tells that its
\* function was called, invoked that the function invoked a registered
\* callback.
NewTimer(kind) ==
    [kind |-> kind, state |-> "created", finished |-> FALSE,
     started_at |-> NoTime, cancelled |-> "no", called |-> FALSE,
     invoked |-> FALSE]

\* Timer.cancel(): self.finished.set().
cancel_ignored(timer) == timer
cancel(timer) ==
    [timer EXCEPT !.finished = TRUE,
                  !.cancelled = IF @ # "no" THEN @
                                ELSE IF timer.state \in {"created", "waiting"}
                                THEN "before expiry"
                                ELSE IF timer.state = "calling" THEN "before call"
                                ELSE "after call"]

\* The thread goes on to the next statement of its method, or returns.
goto(h, step) == handler' = [handler EXCEPT ![h].step = step]

raise(h) ==
    handler' = [handler EXCEPT ![h] = [op |-> @.op, step |-> "idle",
                                       kind |-> @.kind, exc |-> TRUE]]

\* The part of the method for one timer is done: reset_timeout and stop go
\* on to the inactivity timer, the other methods return.
next_part(h) ==
    IF handler[h].op \in {"reset_timeout", "stop"} /\ handler[h].kind = "silence"
    THEN handler' = [handler EXCEPT ![h].step = "test", ![h].kind = "inactivity"]
    ELSE handler' = [handler EXCEPT ![h].step = "idle"]

\* A thread calls reset_silence_timer, reset_inactivity_timer, reset_timeout
\* (lines 49-52) or stop.
HandlerCall(h) ==
    /\ handler[h].step = "idle"
    /\ \E op \in HandlerOps \ {"set_silence_callback", "set_inactivity_callback"} :
         /\ Len(timers) + 2 * Cardinality({g \in DOMAIN handler : handler[g].step # "idle"})
              + creates(op) <= MaxTimers
         /\ handler' = [handler EXCEPT ![h] = [op |-> op, step |-> "test",
                                               kind |-> first_kind(op), exc |-> FALSE]]
    /\ UNCHANGED <<silence_timer, inactivity_timer, on_silence_callback,
                   on_inactivity_callback, timers>>
    /\ UNCHANGED <<model, argos_available, translation_pairs, pc, request, response,
                   recorderVars, now, recognizerVars, assistantVars, utilityVars>>

\* set_silence_callback (lines 31-38) and set_inactivity_callback (lines
\* 40-47), called with a function.
SetCallback(h) ==
    /\ handler[h].step = "idle"
    /\ \E kind \in Kinds :
         /\ handler' = [handler EXCEPT ![h] =
                          [op |-> IF kind = "silence" THEN "set_silence_callback"
                                  ELSE "set_inactivity_callback",
                           step |-> "idle", kind |-> kind, exc |-> FALSE]]
         /\ on_silence_callback' = (on_silence_callback \/ kind = "silence")
         /\ on_inactivity_callback' = (on_inactivity_callback \/ kind = "inactivity")
    /\ UNCHANGED <<silence_timer, inactivity_timer, timers>>
    /\ UNCHANGED <<model, argos_available, translation_pairs, pc, request, response,
                   recorderVars, now, recognizerVars, assistantVars, utilityVars>>

\* Lines 56, 69, 96 and 101: if self.silence_timer: ...
TimerTest(h) ==
    /\ handler[h].step = "test"
    /\ IF timer_field(handler[h].kind) # NoTimer
       THEN goto(h, "cancel")
       ELSE IF handler[h].op = "stop" THEN next_part(h) ELSE goto(h, "new")
    /\ UNCHANGED <<silence_timer, inactivity_timer, on_silence_callback,
                   on_inactivity_callback, timers>>
    /\ UNCHANGED <<model, argos_available, translation_pairs, pc, request, response,
                   recorderVars, now, recognizerVars, assistantVars, utilityVars>>

\* Lines 57, 70, 97 and 102: self.silence_timer.cancel().  The attribute is
\* read again: when it has become None the call raises AttributeError.
TimerCancel(h) ==
    /\ handler[h].step = "cancel"
    /\ LET t == timer_field(handler[h].kind)
       IN IF t = NoTimer
          THEN raise(h) /\ UNCHANGED timers
          ELSE /\ timers' = [timers EXCEPT ![t] = cancel(@)]
               /\ goto(h, IF handler[h].op = "stop" THEN "forget" ELSE "new")
    /\ UNCHANGED <<silence_timer, inactivity_timer, on_silence_callback,
                   on_inactivity_callback>>
    /\ UNCHANGED <<model, argos_available, translation_pairs, pc, request, response,
                   recorderVars, now, recognizerVars, assistantVars, utilityVars>>

\* Lines 98 and 103 of stop: self.silence_timer = None.
TimerForget(h) ==
    /\ handler[h].step = "forget"
    /\ IF handler[h].kind = "silence"
       THEN silence_timer' = NoTimer /\ UNCHANGED inactivity_timer
       ELSE inactivity_timer' = NoTimer /\ UNCHANGED silence_timer
    /\ next_part(h)
    /\ UNCHANGED <<on_silence_callback, on_inactivity_callback, timers>>
    /\ UNCHANGED <<model, argos_available, translation_pairs, pc, request, response,
                   recorderVars, now, recognizerVars, assistantVars, utilityVars>>

\* Lines 60-63 and 73-76: self.silence_timer = threading.Timer(...).
TimerNew(h) ==
    /\ handler[h].step = "new"
    /\ timers' = Append(timers, NewTimer(handler[h].kind))
    /\ IF handler[h].kind = "silence"
       THEN silence_timer' = Len(timers) + 1 /\ UNCHANGED inactivity_timer
       ELSE inactivity_timer' = Len(timers) + 1 /\ UNCHANGED silence_timer
    /\ goto(h, "daemon")
    /\ UNCHANGED <<on_silence_callback, on_inactivity_callback>>
    /\ UNCHANGED <<model, argos_available, translation_pairs, pc, request, response,
                   recorderVars, now, recognizerVars, assistantVars, utilityVars>>

\* Lines 64 and 77: self.silence_timer.daemon = True.  The attribute is read
\* again: None raises AttributeError, a timer another thread has started
\* raises RuntimeError.
TimerDaemon(h) ==
    /\ handler[h].step = "daemon"
    /\ LET t == timer_field(handler[h].kind)
       IN IF t = NoTimer THEN raise(h)
          ELSE IF timers[t].state # "created" THEN raise(h)
          ELSE goto(h, "start")
    /\ UNCHANGED <<silence_timer, inactivity_timer, on_silence_callback,
                   on_inactivity_callback, timers>>
    /\ UNCHANGED <<model, argos_available, translation_pairs, pc, request, response,
                   recorderVars, now, recognizerVars, assistantVars, utilityVars>>

\* Lines 65 and 78: self.silence_timer.start().  The attribute is read
\* again: None raises AttributeError, a timer started before raises
\* RuntimeError; otherwise the timer thread begins its wait.
TimerStart(h) ==
    /\ handler[h].step = "start"
    /\ LET t == timer_field(handler[h].kind)
       IN IF t = NoTimer THEN raise(h) /\ UNCHANGED timers
          ELSE IF timers[t].state # "created" THEN raise(h) /\ UNCHANGED timers
          ELSE /\ timers' = [timers EXCEPT ![t].state = "waiting",
                                           ![t].started_at = now]
               /\ next_part(h)
    /\ UNCHANGED <<silence_timer, inactivity_timer, on_silence_callback,
                   on_inactivity_callback>>
    /\ UNCHANGED <<model, argos_available, translation_pairs, pc, request, response,
                   recorderVars, now, recognizerVars, assistantVars, utilityVars>>

\* The time a started timer's wait ends.
deadline(timer) == timer.started_at + interval(timer.kind)

\* Timer.run: self.finished.wait(self.interval) returns, because the event
\* is set or the interval has passed, and the event is tested.
TimerWake(t) ==
    /\ t \in DOMAIN timers
    /\ timers[t].state = "waiting"
    /\ timers[t].finished \/ now >= deadline(timers[t])
    /\ timers' = [timers EXCEPT ![t] =
                    IF timers[t].finished
                    THEN [@ EXCEPT !.state = "done", !.started_at = NoTime]
                    ELSE [@ EXCEPT !.state = "calling"]]
    /\ UNCHANGED <<silence_timer, inactivity_timer, on_silence_callback,
                   on_inactivity_callback, handler>>
    /\ UNCHANGED <<model, argos_available, translation_pairs, pc, request, response,
                   recorderVars, now, recognizerVars, assistantVars, utilityVars>>

\* Timer.run calls _silence_timeout (lines 80-85) or _inactivity_timeout
\* (lines 87-92), which invokes the callback if one is registered, and sets
\* the finished event; the thread ends.
TimerRun(t) ==
    /\ t \in DOMAIN timers
    /\ timers[t].state = "calling"
    /\ timers' = [timers EXCEPT
                    ![t].state = "done", ![t].finished = TRUE, ![t].called = TRUE,
                    ![t].started_at = NoTime,
                    ![t].invoked = IF timers[t].kind = "silence"
                                   THEN on_silence_callback
                                   ELSE on_inactivity_callback]
    /\ UNCHANGED <<silence_timer, inactivity_timer, on_silence_callback,
                   on_inactivity_callback, handler>>
    /\ UNCHANGED <<model, argos_available, translation_pairs, pc, request, response,
                   recorderVars, now, recognizerVars, assistantVars, utilityVars>>

\* The times at which the wait of a timer ends.
Deadlines == {deadline(timers[t]) : t \in {u \in DOMAIN timers : timers[u].state = "waiting"}}

\* Time passes: TickStep seconds, or less when the wait of a timer ends
\* before.  A timer whose wait has ended wakes up and calls its function
\* before the clock goes on.
Tick ==
    /\ now < MaxTime
    /\ \A t \in DOMAIN timers :
         /\ timers[t].state # "calling"
         /\ timers[t].state = "waiting" =>
              ~timers[t].finished /\ now < deadline(timers[t])
    /\ now' = CHOOSE t \in {MaxTime, now + TickStep} \cup Deadlines :
                \A u \in {MaxTime, now + TickStep} \cup Deadlines : t <= u
    /\ UNCHANGED <<model, argos_available, translation_pairs, pc, request, response,
                   recorderVars, handlerVars, recognizerVars, assistantVars,
                   utilityVars>>

\* TimeoutHandler.__init__, lines 16-29.
InitHandler(threads) ==
    /\ silence_timer = NoTimer
    /\ inactivity_timer = NoTimer
    /\ on_silence_callback = FALSE
    /\ on_inactivity_callback = FALSE
    /\ timers = <<>>
    /\ handler = [h \in threads |-> IdleHandler]

\* The timeout handler is not used.
NoHandler ==
    /\ silence_timer = NoTimer
    /\ inactivity_timer = NoTimer
    /\ on_silence_callback = FALSE
    /\ on_inactivity_callback = FALSE
    /\ timers = <<>>
    /\ handler = <<>>

(***************************************************************************)
(* Speech recognizer (models/speech_recognition.py)                        *)
(*                                                                         *)
(* The application holds one SpeechRecognizer (app.py line 43).  A thread  *)
(* serving a request calls recognize or recognize_async; the worker thread *)
(* started by __init__ takes the queued tasks one by one.  recognize takes *)
(* no lock: the time a thread spends inside AcceptWaveform and Result on a *)
(* recognizer is a state of its own.                                       *)
(***************************************************************************)

\* Requests queued with recognize_async in one run.
MaxRequests == 2

RecognizerLanguages == {"en", "ko"}

RecognizerThreads == {"caller", "worker"}

\* A thread outside recognize.
IdleRecognition ==
    [pc |-> "idle", id |-> 0, language |-> "None", online |-> FALSE, result |-> "none"]

\* The requests queued so far.
issued ==
    Len(recognition_queue) + Len(delivered)
      + (IF recognition["worker"].id # 0 THEN 1 ELSE 0)

\* recognize returns `result`: the caller has its answer, the worker goes on
\* to line 271.
returns(th, result) ==
    IF th = "worker"
    THEN [recognition[th] EXCEPT !.pc = "callback", !.result = result]
    ELSE [IdleRecognition EXCEPT !.result = result]

\* recognize_async, line 289: the task is put on the queue.
RecognizeAsync ==
    /\ recognition["caller"].pc = "idle"
    /\ issued < MaxRequests
    /\ \E language \in RecognizerLanguages, online \in BOOLEAN :
         recognition_queue' = Append(recognition_queue,
                                     [id |-> issued + 1, language |-> language,
                                      online |-> online])
    /\ recognition' = [recognition EXCEPT !["caller"] = IdleRecognition]
    /\ UNCHANGED <<vosk_available, vosk_models, recognizers, delivered>>
    /\ UNCHANGED <<model, argos_available, translation_pairs, pc, request, response,
                   recorderVars, handlerVars, now, assistantVars, utilityVars>>

\* A thread serving a request calls recognize(audio_data, language, online).
RecognizeCall ==
    /\ recognition["caller"].pc = "idle"
    /\ \E language \in RecognizerLanguages, online \in BOOLEAN :
         recognition' = [recognition EXCEPT !["caller"] =
                           [pc |-> "recognize", id |-> 0, language |-> language,
                            online |-> online, result |-> "none"]]
    /\ UNCHANGED <<vosk_available, vosk_models, recognizers, recognition_queue,
                   delivered>>
    /\ UNCHANGED <<model, argos_available, translation_pairs, pc, request, response,
                   recorderVars, handlerVars, now, assistantVars, utilityVars>>

\* _recognition_worker, lines 257-268: the worker thread takes the oldest
\* task of the queue and calls recognize.
WorkerGet ==
    /\ recognition["worker"].pc = "get"
    /\ recognition_queue # <<>>
    /\ LET task == Head(recognition_queue)
       IN recognition' = [recognition EXCEPT !["worker"] =
                            [pc |-> "recognize", id |-> task.id,
                             language |-> task.language, online |-> task.online,
                             result |-> "none"]]
    /\ recognition_queue' = Tail(recognition_queue)
    /\ UNCHANGED <<vosk_available, vosk_models, recognizers, delivered>>
    /\ UNCHANGED <<model, argos_available, translation_pairs, pc, request, response,
                   recorderVars, handlerVars, now, assistantVars, utilityVars>>

\* recognize, lines 160-188: the online attempt, which returns its text or
\* fails and falls back; without Vosk the sentinel; the model of the
\* language, downloaded when missing, or the English one, or the sentinel;
\* the recognizer of the language, created when missing.  The thread is then
\* about to call AcceptWaveform on that recognizer.
RecognizeEnter(th) ==
    /\ recognition[th].pc = "recognize"
    /\ \E online_ok \in IF recognition[th].online THEN BOOLEAN ELSE {FALSE},
          downloaded \in IF vosk_available /\ recognition[th].language \notin vosk_models
                         THEN BOOLEAN ELSE {FALSE} :
         IF online_ok
         THEN /\ recognition' = [recognition EXCEPT ![th] = returns(th, "online text")]
              /\ UNCHANGED <<vosk_models, recognizers>>
         ELSE IF ~vosk_available
         THEN /\ recognition' = [recognition EXCEPT ![th] =
                                   returns(th, "[Speech recognition unavailable]")]
              /\ UNCHANGED <<vosk_models, recognizers>>
         ELSE LET loaded == IF downloaded
                            THEN vosk_models \cup {recognition[th].language}
                            ELSE vosk_models
                  language == IF recognition[th].language \in loaded
                              THEN recognition[th].language ELSE "en"
              IN /\ vosk_models' = loaded
                 /\ IF language \in loaded
                    THEN /\ recognizers' = recognizers \cup {language}
                         /\ recognition' = [recognition EXCEPT ![th].pc = "accept",
                                                               ![th].language = language]
                    ELSE /\ recognition' = [recognition EXCEPT ![th] =
                                  returns(th, "[Speech recognition model not available]")]
                         /\ UNCHANGED recognizers
    /\ UNCHANGED <<vosk_available, recognition_queue, delivered>>
    /\ UNCHANGED <<model, argos_available, translation_pairs, pc, request, response,
                   recorderVars, handlerVars, now, assistantVars, utilityVars>>

\* recognize, lines 191-201: AcceptWaveform and Result or PartialResult on
\* the recognizer of the language; an exception gives the error sentinel.
AcceptWaveform(th) ==
    /\ recognition[th].pc = "accept"
    /\ \E result \in {"text", "partial", "[Speech recognition error]"} :
         recognition' = [recognition EXCEPT ![th] = returns(th, result)]
    /\ UNCHANGED <<vosk_available, vosk_models, recognizers, recognition_queue,
                   delivered>>
    /\ UNCHANGED <<model, argos_available, translation_pairs, pc, request, response,
                   recorderVars, handlerVars, now, assistantVars, utilityVars>>

\* _recognition_worker, lines 270-277: the callback is called with the
\* result, an exception of the callback is logged, and the worker goes back
\* to the queue.
WorkerCallback ==
    /\ recognition["worker"].pc = "callback"
    /\ delivered' = Append(delivered, [id |-> recognition["worker"].id,
                                       result |-> recognition["worker"].result])
    /\ recognition' = [recognition EXCEPT !["worker"] =
                         [IdleRecognition EXCEPT !.pc = "get"]]
    /\ UNCHANGED <<vosk_available, vosk_models, recognizers, recognition_queue>>
    /\ UNCHANGED <<model, argos_available, translation_pairs, pc, request, response,
                   recorderVars, handlerVars, now, assistantVars, utilityVars>>

\* SpeechRecognizer.__init__, lines 24-38: with Vosk the English model is
\* loaded if it can be and the worker thread is started; without Vosk no
\* thread is started.
InitRecognizer ==
    /\ vosk_available \in BOOLEAN
    /\ vosk_models \in IF vosk_available THEN {{}, {"en"}} ELSE {{}}
    /\ recognizers = {}
    /\ recognition_queue = <<>>
    /\ recognition = [th \in RecognizerThreads |->
                        IF th = "worker"
                        THEN [IdleRecognition EXCEPT
                                !.pc = IF vosk_available THEN "get" ELSE "none"]
                        ELSE IdleRecognition]
    /\ delivered = <<>>

\* The speech recognizer is not used.
NoRecognizer ==
    /\ vosk_available = FALSE
    /\ vosk_models = {}
    /\ recognizers = {}
    /\ recognition_queue = <<>>
    /\ recognition = <<>>
    /\ delivered = <<>>

(***************************************************************************)
(* Assistant service (services/ai_assistant.py)                            *)
(*                                                                         *)
(* The module holds three globals, set by initialize(), which the          *)
(* application runs on a background thread (app.py line 50).  A thread     *)
(* serving a request calls process_query; with a callback the second half  *)
(* of the pipeline runs on a thread of its own.  One query is followed     *)
(* from the call to the delivery of its response.                          *)
(***************************************************************************)

AssistantTexts == { <<"x">>, <<HANGUL_GA>> }
QuerySources == {"auto", "en", "ko"}
ResponseLanguages == {"en", "ko", "fr"}

\* What the language model answers.
Answer == <<"answer">>

\* AIAssistant._get_fallback_response(language), models/ai_assistant.py
\* lines 152-159.
fallback_response(language) ==
    <<"fallback:", IF language \in {"en", "tl", "ko"} THEN language ELSE "en">>

\* error_messages.get(response_lang, error_messages['en']), lines 133-138.
error_msg(response_lang) ==
    <<"apology:", IF response_lang \in {"en", "tl", "ko"} THEN response_lang ELSE "en">>

NoAnswer == [text |-> <<>>, audio |-> "None", source_language |-> "None",
             target_language |-> "None", error |-> "absent"]

IdleQuery ==
    [pc |-> "idle", thread |-> "caller", text |-> <<>>, requested |-> "None",
     source_lang |-> "None", response_lang |-> "None", callback |-> FALSE,
     detected |-> "not run", english_query |-> <<>>, english_response |-> <<>>,
     translated_response |-> <<>>, audio_data |-> "None", calls |-> <<>>,
     inference |-> "not run", translation |-> "not run", synthesis |-> "not run",
     response |-> NoAnswer, ret |-> "pending", invocations |-> <<>>]

TranslateCalled(from_lang, to_lang) ==
    [adapter |-> "translate", from |-> from_lang, to |-> to_lang]
GenerateCalled == [adapter |-> "generate_response", from |-> "en", to |-> "en"]

\* Whether a text is the translator's sentinel for a missing path.
is_sentinel(text) == Len(text) > 0 /\ text[1] = "[Translation not available for "

\* Translator.detect_language(text), models/translation.py lines 276-295.
detect_language(m, text, e) ==
    IF is_blank(text) THEN "en"
    ELSE LET d == construct_and_detect(m, text, e)
         IN IF d.exc THEN "en" ELSE d.value

\* Mutant of needs_translation: every text goes through the translator.
always_translates(lang, translator) == translator # "None"

\* `source_lang != 'en' and _translator`, `response_lang != 'en' and
\* _translator` (lines 79 and 108).
needs_translation(lang, translator) == lang # "en" /\ translator # "None"

\* Mutant of sync_thread: the decorator dropped, the caller's thread runs
\* the pipeline and the callback.
same_thread(callback) == "caller"

\* The thread that runs _process_query_sync: the one run_in_thread starts
\* (lines 17-25, 92-96) when there is a callback, else the caller's.
sync_thread(callback) == IF callback THEN "worker" ELSE "caller"

\* AIAssistant.generate_response(text, 'en'), models/ai_assistant.py lines
\* 93-111 and 120-150: [value, inference].
generate_response(loaded, outcome) ==
    IF ~loaded THEN [value |-> fallback_response("en"), inference |-> "not loaded"]
    ELSE IF outcome = RAISE
    THEN [value |-> fallback_response("en"), inference |-> "error"]
    ELSE [value |-> Answer, inference |-> "ok"]

SpeakOutcomes == {"ok", "non-zero exit", "exception"}

\* Mutant of speak: a failure is answered with None.
speak_none_on_failure(available, text, outcome) ==
    IF is_blank(text) THEN [value |-> "", synthesis |-> "empty text"]
    ELSE IF ~available THEN [value |-> "None", synthesis |-> "engine missing"]
    ELSE IF outcome = "ok" THEN [value |-> "base64", synthesis |-> "ok"]
    ELSE [value |-> "None", synthesis |-> outcome]

\* TextToSpeech.speak(text, language), models/tts.py lines 130-205:
\* [value, synthesis].  With Piper every language has its voice (lines
\* 65-117) and an unsupported language is spoken with the English one.
speak(available, text, outcome) ==
    IF is_blank(text) THEN [value |-> "", synthesis |-> "empty text"]
    ELSE IF ~available THEN [value |-> "", synthesis |-> "engine missing"]
    ELSE IF outcome = "ok" THEN [value |-> "base64", synthesis |-> "ok"]
    ELSE [value |-> "", synthesis |-> outcome]

\* A thread serving a request calls process_query(query_text, source_lang,
\* response_lang, callback), line 59.
ProcessQuery ==
    /\ query.pc \in {"idle", "done"}
    /\ \E text \in AssistantTexts, source_lang \in QuerySources,
          response_lang \in ResponseLanguages, callback \in BOOLEAN :
         query' = [IdleQuery EXCEPT !.pc = "detect", !.text = text,
                                    !.requested = source_lang,
                                    !.source_lang = source_lang,
                                    !.response_lang = response_lang,
                                    !.callback = callback]
    /\ UNCHANGED <<_ai_assistant, _translator, _tts, model_loaded, piper_available,
                   starting>>
    /\ UNCHANGED <<model, argos_available, translation_pairs, pc, request, response,
                   recorderVars, handlerVars, now, recognizerVars, utilityVars>>

\* Lines 73-76: the language is detected when it is 'auto' and there is a
\* translator.
DetectSource ==
    /\ query.pc = "detect"
    /\ IF query.source_lang = "auto" /\ _translator # "None"
       THEN \E ctor \in BOOLEAN,
               prediction \in IF model = "loaded" THEN Predictions ELSE {RAISE} :
              LET detected_lang == detect_language(model, query.text,
                                     [ctor |-> ctor, prediction |-> prediction])
              IN query' = [query EXCEPT !.pc = "to_english",
                                        !.source_lang = detected_lang,
                                        !.detected = detected_lang]
       ELSE query' = [query EXCEPT !.pc = "to_english"]
    /\ UNCHANGED <<_ai_assistant, _translator, _tts, model_loaded, piper_available,
                   starting>>
    /\ UNCHANGED <<model, argos_available, translation_pairs, pc, request, response,
                   recorderVars, handlerVars, now, recognizerVars, utilityVars>>

\* Lines 79-82: the query is translated to English when its language is
\* not 'en' and there is a translator.
ToEnglish ==
    /\ query.pc = "to_english"
    /\ IF needs_translation(query.source_lang, _translator)
       THEN \E e \in Environments(query.text, query.source_lang, "en", FALSE) :
              LET r == translate(argos_available, translation_pairs, model, query.text,
                                 query.source_lang, "en", FALSE, e)
              IN query' = [query EXCEPT
                             !.pc = "dispatch", !.english_query = r.value,
                             !.calls = Append(@, TranslateCalled(query.source_lang, "en")),
                             !.translation = IF is_sentinel(r.value)
                                             THEN "unavailable" ELSE "ok"]
       ELSE query' = [query EXCEPT !.pc = "dispatch", !.english_query = query.text]
    /\ UNCHANGED <<_ai_assistant, _translator, _tts, model_loaded, piper_available,
                   starting>>
    /\ UNCHANGED <<model, argos_available, translation_pairs, pc, request, response,
                   recorderVars, handlerVars, now, recognizerVars, utilityVars>>

\* Lines 85-90: with a callback _process_query_async starts a thread and
\* process_query returns None; without one the caller goes on itself.
Dispatch ==
    /\ query.pc = "dispatch"
    /\ query' = [query EXCEPT !.pc = "get_assistant",
                              !.thread = sync_thread(query.callback),
                              !.ret = IF query.callback THEN "None" ELSE "pending"]
    /\ UNCHANGED <<_ai_assistant, _translator, _tts, model_loaded, piper_available,
                   starting>>
    /\ UNCHANGED <<model, argos_available, translation_pairs, pc, request, response,
                   recorderVars, handlerVars, now, recognizerVars, utilityVars>>

\* The except clause of _process_query_sync, lines 131-146.
error_response(q) ==
    [text |-> error_msg(q.response_lang), audio |-> "None",
     source_language |-> q.source_lang, target_language |-> q.response_lang,
     error |-> "message"]

\* Line 102, get_ai_assistant (lines 52-57): initialize() runs when
\* _ai_assistant is None; the constructor of the translator or of the
\* speech engine may raise, which the except clause turns into the error
\* response.
GetAssistant ==
    /\ query.pc = "get_assistant"
    /\ IF _ai_assistant # "None"
       THEN /\ query' = [query EXCEPT !.pc = "generate"]
            /\ UNCHANGED <<_ai_assistant, _translator, _tts, model_loaded,
                           piper_available>>
       ELSE \E outcome \in {"ok", "translator raises", "speech engine raises"},
               piper \in BOOLEAN :
              /\ _ai_assistant' = "instance"
              /\ model_loaded' = FALSE
              /\ _translator' = IF outcome = "translator raises"
                                THEN _translator ELSE "instance"
              /\ _tts' = IF outcome = "ok" THEN "instance" ELSE _tts
              /\ piper_available' = IF outcome = "ok" /\ _tts = "None"
                                    THEN piper ELSE piper_available
              /\ query' = IF outcome = "ok"
                          THEN [query EXCEPT !.pc = "generate"]
                          ELSE [query EXCEPT !.pc = "respond",
                                             !.response = error_response(query)]
    /\ UNCHANGED starting
    /\ UNCHANGED <<model, argos_available, translation_pairs, pc, request, response,
                   recorderVars, handlerVars, now, recognizerVars, utilityVars>>

\* Line 105: ai_assistant.generate_response(english_query, 'en').
Generate ==
    /\ query.pc = "generate"
    /\ \E outcome \in IF model_loaded THEN {"ok", RAISE} ELSE {"ok"} :
         LET r == generate_response(model_loaded, outcome)
         IN query' = [query EXCEPT !.pc = "to_response", !.english_response = r.value,
                                   !.inference = r.inference,
                                   !.calls = Append(@, GenerateCalled)]
    /\ UNCHANGED <<_ai_assistant, _translator, _tts, model_loaded, piper_available,
                   starting>>
    /\ UNCHANGED <<model, argos_available, translation_pairs, pc, request, response,
                   recorderVars, handlerVars, now, recognizerVars, utilityVars>>

\* Lines 108-113: the answer is translated when the response language is
\* not 'en' and there is a translator.
ToResponse ==
    /\ query.pc = "to_response"
    /\ IF needs_translation(query.response_lang, _translator)
       THEN \E e \in Environments(query.english_response, "en", query.response_lang,
                                   FALSE) :
              LET r == translate(argos_available, translation_pairs, model,
                                 query.english_response, "en", query.response_lang,
                                 FALSE, e)
              IN query' = [query EXCEPT
                             !.pc = "speak", !.translated_response = r.value,
                             !.calls = Append(@, TranslateCalled("en", query.response_lang)),
                             !.translation = IF is_sentinel(r.value)
                                             THEN "unavailable" ELSE @]
       ELSE query' = [query EXCEPT !.pc = "speak",
                                   !.translated_response = query.english_response]
    /\ UNCHANGED <<_ai_assistant, _translator, _tts, model_loaded, piper_available,
                   starting>>
    /\ UNCHANGED <<model, argos_available, translation_pairs, pc, request, response,
                   recorderVars, handlerVars, now, recognizerVars, utilityVars>>

\* Lines 116-121: audio_data is None, or what _tts.speak returns.
Speak ==
    /\ query.pc = "speak"
    /\ IF _tts # "None"
       THEN \E outcome \in IF piper_available THEN SpeakOutcomes ELSE {"ok"} :
              LET r == speak(piper_available, query.translated_response, outcome)
              IN query' = [query EXCEPT !.pc = "respond", !.audio_data = r.value,
                                        !.synthesis = r.synthesis]
       ELSE query' = [query EXCEPT !.pc = "respond"]
    /\ UNCHANGED <<_ai_assistant, _translator, _tts, model_loaded, piper_available,
                   starting>>
    /\ UNCHANGED <<model, argos_available, translation_pairs, pc, request, response,
                   recorderVars, handlerVars, now, recognizerVars, utilityVars>>

\* Lines 124-129 and 140-146: _process_query_sync returns its response, to
\* the caller of process_query (line 90) or to _process_query_async (line
\* 95).
Respond ==
    /\ query.pc = "respond"
    /\ LET answer == IF query.response.error # "absent" THEN query.response
                     ELSE [text |-> query.translated_response,
                           audio |-> query.audio_data,
                           source_language |-> query.source_lang,
                           target_language |-> query.response_lang,
                           error |-> "absent"]
       IN query' = IF query.thread = "caller"
                   THEN [query EXCEPT !.pc = "done", !.response = answer,
                                      !.ret = "response"]
                   ELSE [query EXCEPT !.pc = "callback", !.response = answer]
    /\ UNCHANGED <<_ai_assistant, _translator, _tts, model_loaded, piper_available,
                   starting>>
    /\ UNCHANGED <<model, argos_available, translation_pairs, pc, request, response,
                   recorderVars, handlerVars, now, recognizerVars, utilityVars>>

\* Line 96: callback(result), on the thread that ran the pipeline.
Callback ==
    /\ query.pc = "callback"
    /\ query' = [query EXCEPT !.pc = "done",
                              !.invocations = Append(@, [thread |-> query.thread,
                                                         response |-> query.response])]
    /\ UNCHANGED <<_ai_assistant, _translator, _tts, model_loaded, piper_available,
                   starting>>
    /\ UNCHANGED <<model, argos_available, translation_pairs, pc, request, response,
                   recorderVars, handlerVars, now, recognizerVars, utilityVars>>

\* initialize(), lines 35-50, on the thread the application starts (app.py
\* line 50), one assignment at a time; a constructor that raises ends the
\* thread.
Initialize ==
    /\ starting \in {"line 42", "line 47", "line 48"}
    /\ \E raises \in IF starting = "line 42" THEN {FALSE} ELSE BOOLEAN,
          piper \in IF starting = "line 48" /\ _tts = "None" THEN BOOLEAN
                    ELSE {piper_available} :
         IF raises
         THEN /\ starting' = "failed"
              /\ UNCHANGED <<_ai_assistant, _translator, _tts, model_loaded,
                             piper_available>>
         ELSE /\ starting' = CASE starting = "line 42" -> "line 47"
                               [] starting = "line 47" -> "line 48"
                               [] OTHER -> "done"
              /\ _ai_assistant' = IF starting = "line 42" THEN "instance"
                                  ELSE _ai_assistant
              /\ model_loaded' = IF starting = "line 42" THEN FALSE ELSE model_loaded
              /\ _translator' = IF starting = "line 47" THEN "instance" ELSE _translator
              /\ _tts' = IF starting = "line 48" THEN "instance" ELSE _tts
              /\ piper_available' = piper
    /\ UNCHANGED query
    /\ UNCHANGED <<model, argos_available, translation_pairs, pc, request, response,
                   recorderVars, handlerVars, now, recognizerVars, utilityVars>>

\* The thread started by AIAssistant._initialize_model (models/ai_assistant.py
\* lines 35-70) has loaded the model.
LoadModel ==
    /\ _ai_assistant # "None"
    /\ ~model_loaded
    /\ model_loaded' = TRUE
    /\ UNCHANGED <<_ai_assistant, _translator, _tts, piper_available, query, starting>>
    /\ UNCHANGED <<model, argos_available, translation_pairs, pc, request, response,
                   recorderVars, handlerVars, now, recognizerVars, utilityVars>>

\* The module is imported: the globals are None (lines 31-33) and the
\* application is about to run initialize().
InitAssistant ==
    /\ _ai_assistant = "None"
    /\ _translator = "None"
    /\ _tts = "None"
    /\ model_loaded = FALSE
    /\ piper_available = FALSE
    /\ query = IdleQuery
    /\ starting = "line 42"

\* The assistant service is not used.
NoAssistant ==
    /\ _ai_assistant = "None"
    /\ _translator = "None"
    /\ _tts = "None"
    /\ model_loaded = FALSE
    /\ piper_available = FALSE
    /\ query = <<>>
    /\ starting = "never"

(***************************************************************************)
(* Network checker                                                         *)
(***************************************************************************)

\* Monitor threads created in one run.
MaxMonitors == 3

\* The calls of the checker's methods are made one after the other; checker
\* is the last one and what it returned.
NoCall == [op |-> "none", ret |-> "None"]

\* The monitor threads that have read self.running as True and are inside
\* or about to enter check_connection().
Probing == {m \in DOMAIN monitors : monitors[m].pc = "probe"}

\* start_monitoring, lines 54-79: returns at once while self.running is
\* set; otherwise sets it and starts a monitor thread.
StartMonitoring ==
    /\ running \/ Len(monitors) < MaxMonitors
    /\ IF running
       THEN UNCHANGED <<running, monitors>>
       ELSE /\ running' = TRUE
            /\ monitors' = Append(monitors, [pc |-> "test"])
    /\ checker' = [op |-> "start_monitoring", ret |-> "None"]
    /\ UNCHANGED <<_online_status, cacheVars, retryVars>>
    /\ UNCHANGED <<model, argos_available, translation_pairs, pc, request, response,
                   recorderVars, handlerVars, now, recognizerVars, assistantVars>>

\* stop_monitoring, lines 81-84.
StopMonitoring ==
    /\ running' = FALSE
    /\ checker' = [op |-> "stop_monitoring", ret |-> "None"]
    /\ UNCHANGED <<_online_status, monitors, cacheVars, retryVars>>
    /\ UNCHANGED <<model, argos_available, translation_pairs, pc, request, response,
                   recorderVars, handlerVars, now, recognizerVars, assistantVars>>

\* is_online, lines 86-93.
IsOnline ==
    /\ checker' = [op |-> "is_online", ret |-> IF _online_status THEN "True" ELSE "False"]
    /\ UNCHANGED <<_online_status, running, monitors, cacheVars, retryVars>>
    /\ UNCHANGED <<model, argos_available, translation_pairs, pc, request, response,
                   recorderVars, handlerVars, now, recognizerVars, assistantVars>>

\* monitor_thread, line 62: while self.running.
MonitorTest(m) ==
    /\ m \in DOMAIN monitors
    /\ monitors[m].pc = "test"
    /\ monitors' = [monitors EXCEPT ![m].pc = IF running THEN "probe" ELSE "ended"]
    /\ UNCHANGED <<_online_status, running, checker, cacheVars, retryVars>>
    /\ UNCHANGED <<model, argos_available, translation_pairs, pc, request, response,
                   recorderVars, handlerVars, now, recognizerVars, assistantVars>>

\* monitor_thread, lines 64-68: the probe and the status it leaves; the
\* thread then sleeps.
MonitorProbe(m) ==
    /\ m \in DOMAIN monitors
    /\ monitors[m].pc = "probe"
    /\ \E online \in BOOLEAN : _online_status' = online
    /\ monitors' = [monitors EXCEPT ![m].pc = "sleep"]
    /\ UNCHANGED <<running, checker, cacheVars, retryVars>>
    /\ UNCHANGED <<model, argos_available, translation_pairs, pc, request, response,
                   recorderVars, handlerVars, now, recognizerVars, assistantVars>>

\* monitor_thread, line 71: time.sleep(self.check_interval) returns.
MonitorWake(m) ==
    /\ m \in DOMAIN monitors
    /\ monitors[m].pc = "sleep"
    /\ monitors' = [monitors EXCEPT ![m].pc = "test"]
    /\ UNCHANGED <<_online_status, running, checker, cacheVars, retryVars>>
    /\ UNCHANGED <<model, argos_available, translation_pairs, pc, request, response,
                   recorderVars, handlerVars, now, recognizerVars, assistantVars>>

\* NetworkChecker(), lines 17-29: the fields, then start_monitoring().
InitMonitor ==
    /\ _online_status = FALSE
    /\ running = TRUE
    /\ monitors = <<[pc |-> "test"]>>
    /\ checker = NoCall

\* No NetworkChecker is constructed.
NoMonitor ==
    /\ _online_status = FALSE
    /\ running = FALSE
    /\ monitors = <<>>
    /\ checker = NoCall

(***************************************************************************)
(* Cache                                                                   *)
(***************************************************************************)

\* Last value of the clock while the cache is used.
CacheLastTime == 4

default_ttl == 300

\* ttl=None.
NoTtl == -1

CacheKeys == {"k1", "k2"}
CacheValues == {"a", "b"}
CacheTtls == {NoTtl, 0, 2}

\* {}.
EmptyDict == [k \in {} |-> "None"]

\* d[key] = value.
Put(d, key, value) ==
    [k \in DOMAIN d \cup {key} |-> IF k = key THEN value ELSE d[k]]

\* del d[key].
Del(d, key) == [k \in DOMAIN d \ {key} |-> d[k]]

IdleCache == [op |-> "none", key |-> "None", ret |-> "None", at |-> NoTime]

\* get, line 119, when the entry expires at the current time.
not_expired_or_now(e, key, t) == e[key] >= t

\* get, line 119: self.expiry[key] > time.time().
not_expired(e, key, t) == e[key] > t

\* get(key), lines 116-125, with default=None.
CacheGet ==
    \E key \in CacheKeys :
      /\ IF key \in DOMAIN cache
         THEN IF not_expired(expiry, key, now)
              THEN /\ cache_call' = [op |-> "get", key |-> key, ret |-> cache[key],
                                     at |-> now]
                   /\ UNCHANGED <<cache, expiry>>
              ELSE /\ cache' = Del(cache, key)
                   /\ expiry' = Del(expiry, key)
                   /\ cache_call' = [op |-> "get", key |-> key, ret |-> "None",
                                     at |-> now]
         ELSE /\ cache_call' = [op |-> "get", key |-> key, ret |-> "None", at |-> now]
              /\ UNCHANGED <<cache, expiry>>
      /\ UNCHANGED <<last_set, networkVars, retryVars>>
      /\ UNCHANGED <<model, argos_available, translation_pairs, pc, request, response,
                     recorderVars, handlerVars, now, recognizerVars, assistantVars>>

\* set(key, value, ttl), lines 127-133.  last_set keeps, for each key, what
\* its most recent set stored.
CacheSet ==
    \E key \in CacheKeys, value \in CacheValues, given \in CacheTtls :
      LET ttl == IF given = NoTtl THEN default_ttl ELSE given
      IN /\ cache' = Put(cache, key, value)
         /\ expiry' = Put(expiry, key, now + ttl)
         /\ last_set' = Put(last_set, key, [value |-> value, expires |-> now + ttl])
         /\ cache_call' = [op |-> "set", key |-> key, ret |-> "None", at |-> now]
         /\ UNCHANGED <<networkVars, retryVars>>
         /\ UNCHANGED <<model, argos_available, translation_pairs, pc, request,
                        response, recorderVars, handlerVars, now, recognizerVars,
                        assistantVars>>

\* delete(key), lines 135-139.
CacheDelete ==
    \E key \in CacheKeys :
      /\ IF key \in DOMAIN cache
         THEN /\ cache' = Del(cache, key)
              /\ expiry' = Del(expiry, key)
         ELSE UNCHANGED <<cache, expiry>>
      /\ cache_call' = [op |-> "delete", key |-> key, ret |-> "None", at |-> now]
      /\ UNCHANGED <<last_set, networkVars, retryVars>>
      /\ UNCHANGED <<model, argos_available, translation_pairs, pc, request, response,
                     recorderVars, handlerVars, now, recognizerVars, assistantVars>>

\* clear(), lines 141-144.
CacheClear ==
    /\ cache' = EmptyDict
    /\ expiry' = EmptyDict
    /\ cache_call' = [op |-> "clear", key |-> "None", ret |-> "None", at |-> now]
    /\ UNCHANGED <<last_set, networkVars, retryVars>>
    /\ UNCHANGED <<model, argos_available, translation_pairs, pc, request, response,
                   recorderVars, handlerVars, now, recognizerVars, assistantVars>>

\* A second passes between two calls.
CacheTick ==
    /\ now < CacheLastTime
    /\ now' = now + 1
    /\ UNCHANGED <<cacheVars, networkVars, retryVars>>
    /\ UNCHANGED <<model, argos_available, translation_pairs, pc, request, response,
                   recorderVars, handlerVars, recognizerVars, assistantVars>>

\* SimpleCache(), lines 111-114.
InitCache ==
    /\ cache = EmptyDict
    /\ expiry = EmptyDict
    /\ last_set = EmptyDict
    /\ cache_call = IdleCache

(***************************************************************************)
(* Retry with backoff                                                      *)
(***************************************************************************)

\* Largest max_retries of a call.
MaxAttempts == 4

InitialBackoffs == {1, 2}
BackoffMultipliers == {2, 3}

\* What a call has done with its result: nothing yet, returned the value of
\* an attempt (attempt 0: None), or raised the exception of an attempt.
NoResult == [kind |-> "pending", attempt |-> 0]

\* No call of retry_with_backoff is in progress.  calls lists the outcomes of
\* func(), sleeps the arguments of time.sleep().
IdleRetry ==
    [pc |-> "idle", max_retries |-> 0, initial_backoff |-> 0, backoff_multiplier |-> 0,
     retries |-> 0, backoff |-> 0, calls |-> <<>>, sleeps |-> <<>>, ret |-> NoResult]

\* Line 102, with a retry left over once max_retries is reached.
exhausted_late(retries, max_retries) == retries > max_retries

\* Line 102: retries >= max_retries.
exhausted(retries, max_retries) == retries >= max_retries

\* retry_with_backoff(func, max_retries, initial_backoff, backoff_multiplier),
\* lines 92-95.
RetryCall ==
    /\ retry.pc = "idle"
    /\ \E n \in 0..MaxAttempts, initial \in InitialBackoffs,
          multiplier \in BackoffMultipliers :
         retry' = [IdleRetry EXCEPT !.pc = "test", !.max_retries = n,
                                    !.initial_backoff = initial,
                                    !.backoff_multiplier = multiplier,
                                    !.backoff = initial]
    /\ UNCHANGED <<networkVars, cacheVars>>
    /\ UNCHANGED <<model, argos_available, translation_pairs, pc, request, response,
                   recorderVars, handlerVars, now, recognizerVars, assistantVars>>

\* Line 97: while retries < max_retries; past the loop the function returns
\* None.
RetryTest ==
    /\ retry.pc = "test"
    /\ retry' = IF retry.retries < retry.max_retries
                THEN [retry EXCEPT !.pc = "call"]
                ELSE [retry EXCEPT !.pc = "done",
                                   !.ret = [kind |-> "return", attempt |-> 0]]
    /\ UNCHANGED <<networkVars, cacheVars>>
    /\ UNCHANGED <<model, argos_available, translation_pairs, pc, request, response,
                   recorderVars, handlerVars, now, recognizerVars, assistantVars>>

\* Lines 98-107: one attempt.  func() returns, and so does the call; or it
\* raises, and the call raises too or sleeps and multiplies the backoff.
try_once(r, outcome) ==
    LET n == Len(r.calls) + 1
        called == [r EXCEPT !.calls = Append(@, outcome)]
    IN IF outcome = "ok"
       THEN [called EXCEPT !.pc = "done", !.ret = [kind |-> "return", attempt |-> n]]
       ELSE IF exhausted(r.retries + 1, r.max_retries)
            THEN [called EXCEPT !.pc = "done", !.retries = @ + 1,
                                !.ret = [kind |-> "raise", attempt |-> n]]
            ELSE [called EXCEPT !.pc = "test", !.retries = @ + 1,
                                !.sleeps = Append(@, r.backoff),
                                !.backoff = @ * r.backoff_multiplier]

RetryAttempt ==
    /\ retry.pc = "call"
    /\ \E outcome \in {"ok", "raise"} : retry' = try_once(retry, outcome)
    /\ UNCHANGED <<networkVars, cacheVars>>
    /\ UNCHANGED <<model, argos_available, translation_pairs, pc, request, response,
                   recorderVars, handlerVars, now, recognizerVars, assistantVars>>

InitRetry == retry = IdleRetry

\* The utilities are not used.
NoUtilities == NoMonitor /\ InitCache /\ InitRetry

(***************************************************************************)
(* Recording sessions, timers and their threads                            *)
(***************************************************************************)

\* One thread uses the recording service.
InitSession ==
    /\ InitRecorder({"main"})
    /\ NoHandler
    /\ now = StartTime
    /\ NoUtilities
    /\ NoRecognizer
    /\ NoAssistant
    /\ model = "None"
    /\ argos_available = FALSE
    /\ translation_pairs = {}
    /\ pc = "idle"
    /\ request = NoRequest
    /\ response = NoResponse

NextSession ==
    \/ \E c \in DOMAIN callers :
         RecordCheck(c) \/ RecordClear(c) \/ RecordCreate(c) \/ RecordSet(c)
           \/ RecordStart(c) \/ StopCheck(c) \/ StopSet(c)
    \/ \E w \in 1..MaxSessions : Open(w) \/ Iterate(w) \/ Finalize(w) \/ Cleanup(w)

SpecSession == InitSession /\ [][NextSession]_vars

\* Two threads use the recording service at the same moment: the English
\* model is loaded and the clock stays where it is.  A thread inside a call
\* goes on, and a worker thread runs as long as it can.
InitRace ==
    /\ InitRecorder({"first", "second"})
    /\ models = {"en"}
    /\ NoHandler
    /\ now = MaxTime
    /\ NoUtilities
    /\ NoRecognizer
    /\ NoAssistant
    /\ model = "None"
    /\ argos_available = FALSE
    /\ translation_pairs = {}
    /\ pc = "idle"
    /\ request = NoRequest
    /\ response = NoResponse

NextRace ==
    \/ \E c \in DOMAIN callers :
         RecordCheck(c) \/ RecordClear(c) \/ RecordCreate(c) \/ RecordSet(c)
           \/ RecordStart(c) \/ StopCheck(c) \/ StopSet(c)
    \/ \E w \in 1..MaxSessions : Open(w) \/ Iterate(w) \/ Finalize(w) \/ Cleanup(w)

FairRace ==
    /\ \A c \in {"first", "second"} :
         WF_vars(RecordClear(c) \/ RecordCreate(c) \/ RecordSet(c) \/ RecordStart(c)
                   \/ StopSet(c))
    /\ \A w \in 1..MaxSessions :
         WF_vars(Open(w) \/ Iterate(w) \/ Finalize(w) \/ Cleanup(w))

SpecRace == InitRace /\ [][NextRace]_vars /\ FairRace

\* One thread uses the timeout handler; time passes and the timers run.
InitTimers ==
    /\ InitHandler({"main"})
    /\ NoRecorder
    /\ now = StartTime
    /\ NoUtilities
    /\ NoRecognizer
    /\ NoAssistant
    /\ model = "None"
    /\ argos_available = FALSE
    /\ translation_pairs = {}
    /\ pc = "idle"
    /\ request = NoRequest
    /\ response = NoResponse

NextTimers ==
    \/ \E h \in DOMAIN handler :
         HandlerCall(h) \/ SetCallback(h) \/ TimerTest(h) \/ TimerCancel(h)
           \/ TimerForget(h) \/ TimerNew(h) \/ TimerDaemon(h) \/ TimerStart(h)
    \/ \E t \in 1..MaxTimers : TimerWake(t) \/ TimerRun(t)
    \/ Tick

SpecTimers == InitTimers /\ [][NextTimers]_vars

\* Two threads use the timeout handler at the same moment: the clock stays
\* where it is, so that no wait ends by itself.
InitTimerRace ==
    /\ InitHandler({"first", "second"})
    /\ NoRecorder
    /\ now = MaxTime
    /\ NoUtilities
    /\ NoRecognizer
    /\ NoAssistant
    /\ model = "None"
    /\ argos_available = FALSE
    /\ translation_pairs = {}
    /\ pc = "idle"
    /\ request = NoRequest
    /\ response = NoResponse

NextTimerRace ==
    \/ \E h \in DOMAIN handler :
         HandlerCall(h) \/ SetCallback(h) \/ TimerTest(h) \/ TimerCancel(h)
           \/ TimerForget(h) \/ TimerNew(h) \/ TimerDaemon(h) \/ TimerStart(h)
    \/ \E t \in 1..MaxTimers : TimerWake(t)

SpecTimerRace == InitTimerRace /\ [][NextTimerRace]_vars

\* app.py, handle_start_listening (lines 208-221): the socket thread calls
\* timeout_handler.reset_timeout() (line 212) and emits its messages; it
\* registers no callback and starts no capture.  The event is served once.
StartListening(h) ==
    /\ handler[h].step = "idle"
    /\ timers = <<>>
    /\ handler' = [handler EXCEPT ![h] = [op |-> "reset_timeout", step |-> "test",
                                          kind |-> first_kind("reset_timeout"),
                                          exc |-> FALSE]]
    /\ UNCHANGED <<silence_timer, inactivity_timer, on_silence_callback,
                   on_inactivity_callback, timers>>
    /\ UNCHANGED <<model, argos_available, translation_pairs, pc, request, response,
                   recorderVars, now, recognizerVars, assistantVars, utilityVars>>

\* The application: the socket thread serves start_listening with the
\* handler built at app.py line 47, whose callbacks stay None as no code
\* sets them; another thread runs capture sessions with the English model.
\* Time passes while a capture worker waits for a frame; the sessions end
\* by themselves (handle_stop_listening, lines 223-227, stops nothing).
InitListening ==
    /\ InitRecorder({"main"})
    /\ models = {"en"}
    /\ InitHandler({"socket"})
    /\ now = StartTime
    /\ NoUtilities
    /\ NoRecognizer
    /\ NoAssistant
    /\ model = "None"
    /\ argos_available = FALSE
    /\ translation_pairs = {}
    /\ pc = "idle"
    /\ request = NoRequest
    /\ response = NoResponse

NextListening ==
    \/ \E h \in DOMAIN handler :
         StartListening(h) \/ TimerTest(h) \/ TimerNew(h) \/ TimerDaemon(h)
           \/ TimerStart(h)
    \/ \E t \in 1..MaxTimers : TimerWake(t) \/ TimerRun(t)
    \/ \E c \in DOMAIN callers :
         RecordCheck(c) \/ RecordClear(c) \/ RecordCreate(c) \/ RecordSet(c)
           \/ RecordStart(c)
    \/ \E w \in 1..MaxSessions : Open(w) \/ Iterate(w) \/ Finalize(w) \/ Cleanup(w)

SpecListening == InitListening /\ [][NextListening]_vars

\* The application's speech recognizer, used by one thread serving
\* requests.  A thread inside recognize goes on, and the worker thread runs
\* whenever it has a task.
InitRecognition ==
    /\ InitRecognizer
    /\ NoRecorder
    /\ NoHandler
    /\ NoAssistant
    /\ now = StartTime
    /\ NoUtilities
    /\ model = "None"
    /\ argos_available = FALSE
    /\ translation_pairs = {}
    /\ pc = "idle"
    /\ request = NoRequest
    /\ response = NoResponse

NextRecognition ==
    \/ RecognizeAsync
    \/ RecognizeCall
    \/ WorkerGet
    \/ \E th \in RecognizerThreads : RecognizeEnter(th) \/ AcceptWaveform(th)
    \/ WorkerCallback

FairRecognition ==
    /\ WF_vars(WorkerGet \/ WorkerCallback)
    /\ \A th \in RecognizerThreads : WF_vars(RecognizeEnter(th) \/ AcceptWaveform(th))

SpecRecognition == InitRecognition /\ [][NextRecognition]_vars /\ FairRecognition

\* The assistant service: the translator is built without Argos or with
\* the four pairs of the application, and no fastText model is installed.
InitPipeline ==
    /\ InitAssistant
    /\ model = "None"
    /\ argos_available \in BOOLEAN
    /\ translation_pairs =
         IF argos_available
         THEN {pair_key("en", "tl"), pair_key("tl", "en"),
               pair_key("en", "ko"), pair_key("ko", "en")}
         ELSE {}
    /\ NoRecorder
    /\ NoHandler
    /\ NoRecognizer
    /\ now = StartTime
    /\ NoUtilities
    /\ pc = "idle"
    /\ request = NoRequest
    /\ response = NoResponse

NextPipeline ==
    \/ ProcessQuery
    \/ DetectSource
    \/ ToEnglish
    \/ Dispatch
    \/ GetAssistant
    \/ Generate
    \/ ToResponse
    \/ Speak
    \/ Respond
    \/ Callback
    \/ Initialize
    \/ LoadModel

SpecPipeline == InitPipeline /\ [][NextPipeline]_vars

(***************************************************************************)
(* Detector and translator calls: initial states and specifications        *)
(***************************************************************************)

(***************************************************************************)
(* The utilities on their own                                              *)
(***************************************************************************)

\* Nothing but the utilities is used.
OnlyUtilities ==
    /\ NoRecorder
    /\ NoHandler
    /\ NoRecognizer
    /\ NoAssistant
    /\ model = "None"
    /\ argos_available = FALSE
    /\ translation_pairs = {}
    /\ pc = "idle"
    /\ request = NoRequest
    /\ response = NoResponse
    /\ now = StartTime

\* The application's NetworkChecker, its monitor threads and the calls of
\* its methods, made one after the other.
InitMonitoring == OnlyUtilities /\ InitMonitor /\ InitCache /\ InitRetry

NextMonitoring ==
    \/ StartMonitoring
    \/ StopMonitoring
    \/ IsOnline
    \/ \E m \in 1..MaxMonitors : MonitorTest(m) \/ MonitorProbe(m) \/ MonitorWake(m)

SpecMonitoring == InitMonitoring /\ [][NextMonitoring]_vars

\* A SimpleCache used by one thread while time passes.
InitCaching == OnlyUtilities /\ NoMonitor /\ InitCache /\ InitRetry

NextCaching == CacheGet \/ CacheSet \/ CacheDelete \/ CacheClear \/ CacheTick

SpecCaching == InitCaching /\ [][NextCaching]_vars

\* One call of retry_with_backoff.
InitRetrying == OnlyUtilities /\ NoMonitor /\ InitCache /\ InitRetry

NextRetrying == RetryCall \/ RetryTest \/ RetryAttempt

SpecRetrying == InitRetrying /\ [][NextRetrying]_vars

\* LanguageDetector.__init__ leaves self.model None or loaded.
InitDetector == model \in {"None", "loaded"}

\* Translator.__init__: without Argos no pair is loaded; with it, the pairs
\* the installation holds.
InitTranslator ==
    /\ argos_available \in BOOLEAN
    /\ translation_pairs \in SUBSET InstallablePairs
    /\ ~argos_available => translation_pairs = {}

Init ==
    /\ InitDetector
    /\ InitTranslator
    /\ pc = "idle"
    /\ request = NoRequest
    /\ response = NoResponse
    /\ NoRecorder
    /\ NoHandler
    /\ now = StartTime
    /\ NoUtilities
    /\ NoRecognizer
    /\ NoAssistant

Next == TranslateCall \/ ApiTranslateCall \/ TakeResult

Spec == Init /\ [][Next]_vars

\* The detector alone: no translator is constructed.
InitDetect ==
    /\ InitDetector
    /\ argos_available = FALSE
    /\ translation_pairs = {}
    /\ pc = "idle"
    /\ request = NoRequest
    /\ response = NoResponse
    /\ NoRecorder
    /\ NoHandler
    /\ now = StartTime
    /\ NoUtilities
    /\ NoRecognizer
    /\ NoAssistant

NextDetect == DetectCall \/ TakeResult

SpecDetect == InitDetect /\ [][NextDetect]_vars

(***************************************************************************)
(* Properties                                                              *)
(***************************************************************************)

\* Translator.translate was called and has returned.
Translated ==
    /\ pc = "returned"
    /\ request.op \in {"translate", "api_translate"}
    /\ response.line # 111

\* text.strip() is not empty.
NonBlank(text) == \E i \in DOMAIN text : text[i] # " "

\* What the engine of call c answers when it succeeds.
OutputOf(c) ==
    IF c.engine = "online"
    THEN <<"online:", c.src, c.tgt>> \o c.input
    ELSE <<"argos:", c.src, c.tgt>> \o c.input

Sentinel(x, y) == <<"[Translation not available for ", x, " to ", y, "]">>

Registered(a, b) == <<a, "-", b>> \in translation_pairs

C2_SentinelNamesRequest ==
    Translated
    => /\ ~response.exc
       /\ ( /\ NonBlank(request.text)
            /\ response.source # request.to_lang
            /\ ~\E i \in DOMAIN response.calls :
                  /\ response.calls[i].outcome = "ok"
                  /\ response.value = OutputOf(response.calls[i]) )
          => response.value = Sentinel(response.source, request.to_lang)

\* C2 (amended): translate never raises, and when no engine produced the
\* returned text of a request that needed a translation, the text is the
\* sentinel naming the (resolved source, target) pair, or, when a hop of the
\* path through 'en' is not registered, the sentinel naming that hop.
C2_NeverRaisesSentinel ==
    Translated
    => /\ ~response.exc
       /\ ( /\ NonBlank(request.text)
            /\ response.source # request.to_lang
            /\ ~\E i \in DOMAIN response.calls :
                  /\ response.calls[i].outcome = "ok"
                  /\ response.value = OutputOf(response.calls[i]) )
          => \/ response.value = Sentinel(response.source, request.to_lang)
             \/ /\ argos_available
                /\ ~Registered(response.source, request.to_lang)
                /\ response.source # "en"
                /\ request.to_lang # "en"
                /\ \/ /\ ~Registered(response.source, "en")
                      /\ response.value = Sentinel(response.source, "en")
                   \/ /\ Registered(response.source, "en")
                      /\ ~Registered("en", request.to_lang)
                      /\ response.value = Sentinel("en", request.to_lang)

\* C2 witness: the detector fails, the online call raises and the offline
\* hop raises, and the call returns the sentinel for 'en' to the target.
C2_Witness ==
    /\ Translated
    /\ response.detected = "failed"
    /\ Len(response.calls) = 2
    /\ response.calls[1].outcome = "raise"
    /\ response.calls[2].outcome = "raise"
    /\ ~response.exc
    /\ response.value = Sentinel("en", request.to_lang)

\* C3: in online mode the online engine is called first, with the request;
\* when it answers non-empty text that text is returned and no offline hop
\* runs; when it raises or answers nothing, the call returns what the
\* offline path returns for the same request, after the offline path's
\* engine calls, and nothing is raised.
C3_OnlineFirstThenOffline ==
    ( /\ Translated
      /\ request.online
      /\ NonBlank(request.text)
      /\ response.source # request.to_lang )
    => LET c == response.calls
       IN /\ Len(c) >= 1
          /\ c[1] = [engine |-> "online", src |-> response.source,
                     tgt |-> request.to_lang, input |-> request.text,
                     outcome |-> c[1].outcome]
          /\ \A i \in 2..Len(c) : c[i].engine = "argos"
          /\ ~response.exc
          /\ c[1].outcome = "ok"
             => /\ Len(c) = 1
                /\ response.value = OutputOf(c[1])
          /\ c[1].outcome # "ok"
             => /\ response.value # <<>>
                /\ \E h \in [1..2 -> {"ok", "raise"}] :
                     LET off == offline_translate(argos_available, translation_pairs,
                                                  request.text, response.source,
                                                  request.to_lang, [hops |-> h])
                     IN /\ response.value = off.value
                        /\ Tail(c) = off.calls

\* C3 witness: the online engine answers nothing, the registered direct hop
\* runs and its output is returned.
C3_Witness ==
    /\ Translated
    /\ request.online
    /\ Len(response.calls) = 2
    /\ response.calls[1].engine = "online"
    /\ response.calls[1].outcome = "empty"
    /\ response.calls[2].engine = "argos"
    /\ response.calls[2].outcome = "ok"
    /\ response.value = OutputOf(response.calls[2])

\* C4 (as claimed): a request that ends in the sentinel because a hop of its
\* path has no registered engine invoked no translation engine.
C4_NoEngineBeforeMissingHop ==
    ( /\ Translated
      /\ response.line = 199
      /\ \E a, b \in {"en", "tl", "ko", "fr", "auto"} :
           /\ ~Registered(a, b)
           /\ response.value = Sentinel(a, b) )
    => response.calls = <<>>

\* C5 (as claimed): offline, for A and B other than 'en' with no direct
\* mapping: with A-en and en-B registered exactly two hops run, A-en then
\* en-B on the first's output, and the second's output is returned; with a
\* hop unregistered the sentinel names that hop; never more than two hops.
C5_TwoHopsThroughBaseline ==
    LET a == request.from_lang
        b == request.to_lang
        c == response.calls
    IN ( /\ Translated
         /\ ~request.online
         /\ NonBlank(request.text)
         /\ a \in {"tl", "ko"}
         /\ b \in {"tl", "ko"}
         /\ a # b
         /\ ~Registered(a, b) )
       => /\ Len(c) <= 2
          /\ (Registered(a, "en") /\ Registered("en", b))
             => /\ Len(c) = 2
                /\ c[1].src = a /\ c[1].tgt = "en" /\ c[1].input = request.text
                /\ c[2].src = "en" /\ c[2].tgt = b /\ c[2].input = OutputOf(c[1])
                /\ response.value = OutputOf(c[2])
          /\ ~Registered(a, "en") => response.value = Sentinel(a, "en")
          /\ (Registered(a, "en") /\ ~Registered("en", b))
             => response.value = Sentinel("en", b)

\* C5 (amended): offline, for A and B other than 'en' with no direct
\* mapping, when the offline engine is available and no hop raises: with
\* A-en and en-B registered exactly two hops run, A-en then en-B on the
\* first's output, and the second's output is returned; with A-en
\* unregistered no hop runs and the sentinel names A-en; with only en-B
\* unregistered the A-en hop runs and the sentinel names en-B.  When the
\* offline engine is unavailable no hop runs, and when a hop raises no
\* further hop runs; both return the sentinel naming A-B.  No path has more
\* than two hops.
C5_TwoHopsWhenEngineWorks ==
    LET a == request.from_lang
        b == request.to_lang
        c == response.calls
        raised == \E i \in DOMAIN c : c[i].outcome = "raise"
    IN ( /\ Translated
         /\ ~request.online
         /\ NonBlank(request.text)
         /\ a \in {"tl", "ko"}
         /\ b \in {"tl", "ko"}
         /\ a # b
         /\ ~Registered(a, b) )
       => /\ Len(c) <= 2
          /\ \A i \in DOMAIN c : c[i].engine = "argos"
          /\ (argos_available /\ ~raised)
             => /\ (Registered(a, "en") /\ Registered("en", b))
                   => /\ Len(c) = 2
                      /\ c[1].src = a /\ c[1].tgt = "en" /\ c[1].input = request.text
                      /\ c[2].src = "en" /\ c[2].tgt = b /\ c[2].input = OutputOf(c[1])
                      /\ response.value = OutputOf(c[2])
                /\ ~Registered(a, "en")
                   => /\ c = <<>>
                      /\ response.value = Sentinel(a, "en")
                /\ (Registered(a, "en") /\ ~Registered("en", b))
                   => /\ Len(c) = 1
                      /\ c[1].src = a /\ c[1].tgt = "en"
                      /\ response.value = Sentinel("en", b)
          /\ ~argos_available
             => /\ c = <<>>
                /\ response.value = Sentinel(a, b)
          /\ raised
             => /\ c[Len(c)].outcome = "raise"
                /\ \A i \in 1..(Len(c) - 1) : c[i].outcome = "ok"
                /\ response.value = Sentinel(a, b)

\* C5 witness: tl to ko offline with tl-en and en-ko registered and no
\* direct pair: two hops ran and the second's output came back.
C5_Witness ==
    /\ Translated
    /\ ~request.online
    /\ request.from_lang = "tl"
    /\ request.to_lang = "ko"
    /\ ~Registered("tl", "ko")
    /\ Len(response.calls) = 2
    /\ response.calls[2].outcome = "ok"
    /\ response.value = OutputOf(response.calls[2])

\* C6: offline, for supported A # B with A-B registered and text non-blank,
\* exactly one engine hop is invoked, the A-B one on the request's text, and
\* its output is what the call returns; no hop through 'en' is made.
C6_DirectSingleHop ==
    LET a == request.from_lang
        b == request.to_lang
        c == response.calls
    IN ( /\ Translated
         /\ ~request.online
         /\ NonBlank(request.text)
         /\ a \in {"en", "tl", "ko"}
         /\ b \in {"en", "tl", "ko"}
         /\ a # b
         /\ Registered(a, b) )
       => /\ Len(c) = 1
          /\ c[1].engine = "argos"
          /\ c[1].src = a
          /\ c[1].tgt = b
          /\ c[1].input = request.text
          /\ c[1].outcome = "ok" => response.value = OutputOf(c[1])

\* C6 witness: tl to ko offline with tl-ko, tl-en and en-ko all registered:
\* one hop, tl-ko, and its output returned.
C6_Witness ==
    /\ Translated
    /\ ~request.online
    /\ request.from_lang = "tl"
    /\ request.to_lang = "ko"
    /\ Registered("tl", "ko")
    /\ Registered("tl", "en")
    /\ Registered("en", "ko")
    /\ Len(response.calls) = 1
    /\ response.value = OutputOf(response.calls[1])

\* C7: translate with an empty or whitespace-only text returns the empty
\* string, whatever the source, target and mode, and invokes neither the
\* detector nor any engine.
C7_BlankReturnsEmpty ==
    ( /\ Translated
      /\ ~NonBlank(request.text) )
    => /\ response.value = <<>>
       /\ response.calls = <<>>
       /\ response.detected = "not run"
       /\ ~response.exc

\* C7 witness: a whitespace-only text sent online with source 'auto' comes
\* back as the empty string.
C7_Witness ==
    /\ Translated
    /\ request.text = <<" ">>
    /\ request.from_lang = "auto"
    /\ request.online
    /\ response.value = <<>>

\* C8 (as claimed): every language code an engine call is given is one of
\* en, tl, ko.
C8_EngineCodesSupported ==
    Translated
    => \A i \in DOMAIN response.calls :
         /\ response.calls[i].src \in {"en", "tl", "ko"}
         /\ response.calls[i].tgt \in {"en", "tl", "ko"}

\* C9: detect never raises and returns one of en, tl, ko, for every text and
\* every state and answer of the fastText model; for an empty or
\* whitespace-only text it returns 'en'.
C9_DetectTotalSupported ==
    (pc = "returned" /\ request.op = "detect")
    => /\ ~response.exc
       /\ response.value \in {"en", "tl", "ko"}
       /\ ~NonBlank(request.text) => response.value = "en"

\* C9 witness: the loaded model labels a non-blank text 'ja' and detect
\* returns 'en'.
C9_Witness ==
    /\ pc = "returned"
    /\ request.op = "detect"
    /\ model = "loaded"
    /\ request.prediction = "__label__ja"
    /\ NonBlank(request.text)
    /\ response.value = "en"

\* Number of Hangul syllables of a text.
HangulCount(text) == Cardinality({ i \in DOMAIN text : text[i] = "U+AC00" })

\* C10 (as claimed): with no fastText model, detect returns 'ko' for every
\* text of which at least 30% of the characters are Hangul syllables,
\* exactly 30% included (the text being measured as detect measures it,
\* after lower-casing).
C10_KoreanAtLeast30 ==
    ( /\ pc = "returned"
      /\ request.op = "detect"
      /\ model = "None"
      /\ Len(request.text) > 0
      /\ 10 * HangulCount(lower(request.text)) >= 3 * Len(lower(request.text)) )
    => response.value = "ko"

\* C10 (amended): with no fastText model, detect returns 'ko' exactly for
\* the texts of which more than 30% of the characters, counted after
\* lower-casing, are Hangul syllables; at exactly 30% it does not.
C10_KoreanOver30 ==
    ( /\ pc = "returned"
      /\ request.op = "detect"
      /\ model = "None" )
    => LET lowered == lower(request.text)
       IN response.value = "ko"
          <=> 10 * HangulCount(lowered) > 3 * Len(lowered)

\* C10 witness: with no model, a text of 3 Hangul syllables among 9
\* characters that also holds two Filipino function words is 'ko'.
C10_Witness ==
    /\ pc = "returned"
    /\ request.op = "detect"
    /\ model = "None"
    /\ Len(request.text) = 9
    /\ HangulCount(request.text) = 3
    /\ filipino_count(lower(request.text)) = 2
    /\ response.value = "ko"

\* C26: when the fastText model is loaded and answers with a label that,
\* after the alias table, is none of en, tl, ko, detect returns what the
\* fallback tier returns for the text (for instance 'ko' for a text that is
\* mostly Hangul).
C26_UnsupportedLabelFallsThrough ==
    ( /\ pc = "returned"
      /\ request.op = "detect"
      /\ model = "loaded"
      /\ NonBlank(request.text)
      /\ request.prediction # RAISE
      /\ lang_mapping(strip_label(request.prediction)) \notin supported_languages )
    => response.value = fallback_detect(request.text)

(***************************************************************************)
(* Recording sessions                                                      *)
(***************************************************************************)

\* The capture workers whose thread has not ended.
Running == {w \in DOMAIN workers : workers[w].pc # "done"}

\* The invocations of the callback with the given final flag.
Invocations(log, final) == SelectSeq(log, LAMBDA d : d.final = final)

\* C11: under every interleaving of record_audio calls from concurrent
\* callers, at most one capture worker thread is running at any time: two
\* calls racing on the is_recording check never both create a session.
C11_OneWorkerAtATime == Cardinality(Running) <= 1

\* C12: a call of record_audio made while is_recording is set returns False
\* and leaves the stop flag, the recognizer, current_language, the
\* is_recording flag and the workers unchanged.
C12_StartWhileRecordingIsNoOp ==
    [][\A c \in DOMAIN callers :
         (/\ callers[c].pc = "idle"
          /\ is_recording
          /\ callers'[c] # callers[c]
          /\ callers'[c].op = "record_audio")
         => /\ callers'[c].pc = "idle"
            /\ callers'[c].ret = "False"
            /\ UNCHANGED <<is_recording, stop_recording, current_recognizer,
                           current_language, workers>>]_vars

\* A session is recording, and a call of record_audio has returned False.
C12_Witness ==
    /\ is_recording
    /\ Running # {}
    /\ \E c \in DOMAIN callers :
         /\ callers[c].op = "record_audio"
         /\ callers[c].pc = "idle"
         /\ callers[c].ret = "False"

\* C13: once stop_recording_audio() has set the stop flag of a recording
\* session, and while the device keeps delivering frames, the session
\* eventually returns to Idle: is_recording is cleared.
C13_StopEndsSession == (is_recording /\ stop_recording) ~> ~is_recording

\* C14, as stated: every session ended by stop() whose flush does not raise
\* emits a callback with final=true before it returns to Idle, also when it
\* recognized no text.
C14_StopAlwaysEmitsFinal ==
    \A w \in DOMAIN workers :
      (/\ workers[w].pc = "cleanup"
       /\ workers[w].ended_by = "stop"
       /\ workers[w].callback
       /\ workers[w].flush \in {"blank", "text"})
      => Len(Invocations(workers[w].delivered, TRUE)) = 1

\* The final text of a session: the flushed text when it is not blank,
\* otherwise the last chunk the recognizer committed, otherwise none.
FinalText(s) ==
    IF s.flush = "text" THEN FlushText
    ELSE IF s.commits # <<>> THEN s.commits[Len(s.commits)]
    ELSE NoText

\* C14, amended: every session ended by stop() flushes the recognizer before
\* it returns to Idle; when a callback is registered and the flush does not
\* raise, it emits one callback with final=true carrying the final text if
\* the session has a text, and no final callback if it recognized no text.
C14_StopEmitsFinalWhenText ==
    \A w \in DOMAIN workers :
      (workers[w].pc = "cleanup" /\ workers[w].ended_by = "stop")
      => /\ workers[w].flush # "not run"
         /\ Invocations(workers[w].delivered, TRUE) =
              IF /\ workers[w].callback
                 /\ workers[w].flush # "raise"
                 /\ FinalText(workers[w]) # NoText
              THEN <<[text |-> FinalText(workers[w]), final |-> TRUE]>>
              ELSE <<>>

\* A session with a callback was stopped, flushed without a text and had
\* committed none: no callback was invoked.
C14_Witness ==
    \E w \in DOMAIN workers :
      /\ workers[w].pc = "cleanup"
      /\ workers[w].ended_by = "stop"
      /\ workers[w].callback
      /\ workers[w].flush = "blank"
      /\ workers[w].commits = <<>>
      /\ workers[w].delivered = <<>>

\* C15: within a session the chunks the recognizer committed are delivered
\* with final=false, each once and in the order of their frames; at most
\* one callback with final=true is delivered, and it is the last one.
C15_CallbackOrder ==
    \A w \in DOMAIN workers :
      LET log == workers[w].delivered
      IN /\ workers[w].callback =>
              Invocations(log, FALSE) =
                [i \in 1..Len(workers[w].commits) |->
                   [text |-> workers[w].commits[i], final |-> FALSE]]
         /\ \A i \in 1..Len(workers[w].commits) : workers[w].commits[i] = Chunk(i)
         /\ ~workers[w].callback => log = <<>>
         /\ Len(Invocations(log, TRUE)) <= 1
         /\ \A i \in 1..Len(log) : log[i].final => i = Len(log)

\* A session delivered two chunks and then its final result.
C15_Witness ==
    \E w \in DOMAIN workers :
      /\ Len(workers[w].delivered) = 3
      /\ workers[w].delivered[3].final

\* C16: an exception raised by the audio read or by the recognizer on a
\* frame does not end the capture loop.
C16_FrameErrorSkipped ==
    \A w \in DOMAIN workers :
      workers[w].ended_by \notin {"read_error", "recognizer_error"}

\* C17: when opening the audio stream fails for the session a call of
\* record_audio started, that call has returned False.
C17_OpenFailureReturnsFalse ==
    \A c \in DOMAIN callers :
      (/\ callers[c].op = "record_audio"
       /\ callers[c].pc = "idle"
       /\ callers[c].session # 0
       /\ workers[callers[c].session].ended_by = "open_error")
      => callers[c].ret = "False"

\* C18: with the stop flag clear, a frame that is read ends the session
\* exactly when it is low-energy and the silence has lasted longer than
\* silence_timeout or the last loud frame is longer ago than
\* inactivity_timeout; a loud frame clears the silence start, sets
\* last_audio_time to its time and does not end the session by timeout.
C18_TimeoutsEndSession ==
    [][\A w \in DOMAIN workers :
         LET s == workers[w]
             after == workers'[w]
             start == IF s.silence_start_time = NoTime THEN now'
                      ELSE s.silence_start_time
         IN (/\ s.pc = "loop"
             /\ ~stop_recording
             /\ workers' # workers \/ now' # now
             /\ after.ended_by # "read_error")
            => IF after.silence_start_time = NoTime
               THEN /\ after.last_audio_time = now'
                    /\ after.pc # "final"
                    /\ after.ended_by \notin {"silence", "inactivity"}
               ELSE /\ after.silence_start_time = start
                    /\ after.last_audio_time = s.last_audio_time
                    /\ after.pc = "final" <=>
                         \/ now' - start > silence_timeout
                         \/ now' - s.last_audio_time > inactivity_timeout
                    /\ after.pc = "final" =>
                         after.ended_by \in {"silence", "inactivity"}]_vars

\* A session was ended by the inactivity timeout while its silence had not
\* lasted longer than silence_timeout.
C18_Witness ==
    \E w \in DOMAIN workers :
      /\ workers[w].pc = "final"
      /\ workers[w].ended_by = "inactivity"
      /\ now - workers[w].silence_start_time <= silence_timeout

\* C31: when a session ends, by stop, by a timeout or by an exception,
\* is_recording is cleared; and under every interleaving of start and stop
\* calls a stop request never sets the stop flag when the sessions it was
\* issued for have ended and a later session is running.
C31_StopStaysWithItsSession ==
    [][/\ \A w \in DOMAIN workers :
            (workers[w].pc = "cleanup" /\ workers'[w].pc = "done")
            => ~is_recording'
       /\ \A c \in DOMAIN callers :
            (/\ callers[c].pc = "stop"
             /\ callers'[c].pc = "idle"
             /\ \A v \in DOMAIN workers :
                  v <= callers[c].session => workers[v].pc = "done")
            => ~\E w \in DOMAIN workers :
                  /\ w > callers[c].session
                  /\ workers[w].pc \in {"open", "loop"}]_vars

\* C32: whenever a session is recording, the language its callbacks are
\* given equals current_language, which get_recording_status returns, and
\* the language of the recognizer in use, also when create_recognizer fell
\* back to another language.
C32_LanguageConsistent ==
    \A w \in DOMAIN workers :
      workers[w].pc \in {"open", "loop", "final"}
      => /\ workers[w].language = current_language
         /\ current_language = current_recognizer

(***************************************************************************)
(* Timers                                                                  *)
(***************************************************************************)

\* The timers of a kind that are started, not cancelled, and have not yet
\* called their function.
Pending(kind) ==
    {t \in DOMAIN timers : /\ timers[t].kind = kind
                           /\ timers[t].state \in {"waiting", "calling"}
                           /\ timers[t].cancelled = "no"}

\* C19: when reset_silence_timer is called again and again by one thread,
\* every arm but the last is cancelled, an arm cancelled before its wait
\* ended never calls the silence callback, at most one arm is pending, and
\* the arm that fires does so silence_timeout after it was started.
C19_LastResetFiresOnce ==
    /\ [](\A t \in DOMAIN timers :
            timers[t].kind = "silence" =>
              /\ t # silence_timer => timers[t].cancelled # "no"
              /\ timers[t].cancelled = "before expiry" =>
                   ~timers[t].called /\ timers[t].state # "calling"
              /\ timers[t].invoked => timers[t].called
              /\ (timers[t].state = "waiting" /\ ~timers[t].finished) =>
                   now <= timers[t].started_at + handler_silence_timeout)
    /\ [](Cardinality(Pending("silence")) <= 1)
    /\ [][\A t \in DOMAIN timers :
            (/\ timers[t].kind = "silence"
             /\ timers[t].state = "calling"
             /\ timers'[t].called)
            => /\ now = timers[t].started_at + handler_silence_timeout
               /\ timers'[t].invoked = on_silence_callback]_vars

\* The silence timer was reset before it expired: the first arm was
\* cancelled and never fired, the second arm invoked the callback.
C19_Witness ==
    /\ Len(timers) >= 2
    /\ timers[1].kind = "silence"
    /\ timers[1].cancelled = "before expiry"
    /\ timers[1].state = "done"
    /\ ~timers[1].called
    /\ timers[2].kind = "silence"
    /\ timers[2].invoked
    /\ now > StartTime + handler_silence_timeout

\* C20: under every interleaving of the calls of concurrent threads, at most
\* one uncancelled silence timer and at most one uncancelled inactivity
\* timer is pending.
C20_OnePendingTimer ==
    /\ Cardinality(Pending("silence")) <= 1
    /\ Cardinality(Pending("inactivity")) <= 1

\* The timers of a kind, as the handler and the timer threads leave them.
Arms(kind) == [t \in {u \in DOMAIN timers : timers[u].kind = kind} |-> timers[t]]

\* The thread is inside a call of the method.
Inside(h, op) == handler[h].op = op /\ handler[h].step # "idle"

C28_ExpiryReachesSession ==
    [][\A t \in DOMAIN timers :
         (/\ is_recording
          /\ timers[t].state = "calling"
          /\ timers'[t].called)
         => timers'[t].invoked]_vars

(***************************************************************************)
(* Assistant pipeline                                                      *)
(***************************************************************************)

\* The response of the query has been handed over: returned to the caller,
\* or about to be given, or given, to the callback.
Answered == query.pc \in {"callback", "done"}

SynthesisFailures == {"engine missing", "non-zero exit", "exception"}

\* C21: process_query hands over a response with its four fields and raises
\* nothing; whenever the inference, a translation or the synthesis failed,
\* the error field is populated and the text is the apology in the response
\* language, the English one for a language other than en, tl, ko.
C21_FailureGivesError ==
    Answered
    => /\ query.response.source_language # "None"
       /\ query.response.target_language = query.response_lang
       /\ ( \/ query.inference \in {"not loaded", "error"}
            \/ query.translation = "unavailable"
            \/ query.synthesis \in SynthesisFailures )
          => /\ query.response.error # "absent"
             /\ query.response.text = error_msg(query.response_lang)

\* C22: a process_query call with a callback returns None, and its callback
\* is invoked once the pipeline has ended, exactly once, with the response,
\* on the thread started for the query and never on the caller's; also
\* when the pipeline ended in the error response.
C22_CallbackOnceOnWorker ==
    query.callback
    => /\ Len(query.invocations) = (IF query.pc = "done" THEN 1 ELSE 0)
       /\ \A i \in DOMAIN query.invocations :
            /\ query.invocations[i].thread # "caller"
            /\ query.invocations[i].response = query.response
       /\ query.pc \notin {"idle", "detect", "to_english", "dispatch"}
            => query.ret = "None"

\* A query with a callback failed in get_ai_assistant and the callback was
\* given the error response by the worker thread.
C22_Witness ==
    /\ query.callback
    /\ query.pc = "done"
    /\ query.ret = "None"
    /\ query.response.error = "message"
    /\ Len(query.invocations) = 1
    /\ query.invocations[1].thread = "worker"

IsPrefix(a, b) == Len(a) <= Len(b) /\ \A i \in DOMAIN a : a[i] = b[i]

\* The router calls of a query detected as K and answered in M.
ExpectedCalls(K, M) ==
    (IF K # "en" THEN <<TranslateCalled(K, "en")>> ELSE <<>>)
      \o <<GenerateCalled>>
      \o (IF M # "en" THEN <<TranslateCalled("en", M)>> ELSE <<>>)

\* C23: for a query given with source language 'auto' and detected as K,
\* with response language M, the calls made are, in this order and no
\* other: translate K to en when K is not en, one generate_response on the
\* English query, translate en to M when M is not en.
C23_RouterCallSequence ==
    (query.requested = "auto" /\ query.detected # "not run")
    => /\ IsPrefix(query.calls, ExpectedCalls(query.detected, query.response_lang))
       /\ query.pc \in {"speak", "respond", "callback", "done"}
            => query.calls = ExpectedCalls(query.detected, query.response_lang)

\* A Korean query given as 'auto' was answered in Korean: three calls.
C23_Witness ==
    /\ query.pc = "done"
    /\ query.requested = "auto"
    /\ query.detected = "ko"
    /\ query.response_lang = "ko"
    /\ query.calls = <<TranslateCalled("ko", "en"), GenerateCalled,
                       TranslateCalled("en", "ko")>>

C25_UnavailableEngineReported ==
    Answered
    => /\ ( \/ query.inference = "not loaded"
            \/ (query.translation = "unavailable" /\ ~argos_available) )
          => query.response.error # "absent"
       /\ query.english_response = fallback_response("en")
          => query.response.error # "absent"

\* C33: the translator's '[Translation not available ...]' text is never
\* used as content: it is not given to generate_response as the query, and
\* when the translation of the answer gives it, it is neither spoken nor
\* returned as the text of a response without error.
C33_SentinelNeverContent ==
    /\ query.inference # "not run" => ~is_sentinel(query.english_query)
    /\ (Answered /\ is_sentinel(query.translated_response))
         => /\ query.synthesis = "not run"
            /\ query.response.error # "absent"

\* C34: whenever process_query is called relative to initialize(), a query
\* given with source language 'auto' has its language resolved to one of
\* en, tl, ko, which the response reports, and a query that is not English
\* reaches generate_response translated.
C34_SameBeforeInitialization ==
    query.requested = "auto"
    => /\ Answered => query.response.source_language \in supported_languages
       /\ (query.inference # "not run" /\ query.text = <<HANGUL_GA>>)
            => query.english_query # query.text

\* C35: an AIAssistant is constructed at most once: when the background
\* thread runs `_ai_assistant = AIAssistant()` (line 42), no instance has
\* been constructed by a first call of get_ai_assistant(), so that every
\* caller sees the one instance.
C35_SingletonsCreatedOnce ==
    [][(starting = "line 42" /\ starting' = "line 47") => _ai_assistant = "None"]_vars

(***************************************************************************)
(* Speech recognizer                                                       *)
(***************************************************************************)

\* The threads inside AcceptWaveform / Result on the recognizer of a
\* language.
InFlight(language) ==
    {th \in DOMAIN recognition : /\ recognition[th].pc = "accept"
                                  /\ recognition[th].language = language}

\* C27: at most one thread at a time is inside a call on the recognizer of
\* a language.
C27_OneCallPerRecognizer ==
    \A language \in RecognizerLanguages : Cardinality(InFlight(language)) <= 1

\* C30: every request queued with recognize_async has its callback invoked
\* in the end, whether Vosk is installed or not, and the callbacks are
\* invoked once per request in the order of the queue.
C30_QueuedIsDelivered ==
    /\ \A id \in 1..MaxRequests :
         (\E i \in DOMAIN recognition_queue : recognition_queue[i].id = id)
           ~> (\E i \in DOMAIN delivered : delivered[i].id = id)
    /\ [](\A i, j \in DOMAIN delivered : i < j => delivered[i].id < delivered[j].id)

(***************************************************************************)
(* Utilities                                                               *)
(***************************************************************************)

\* C36: for every sequence of start_monitoring and stop_monitoring calls at
\* most one monitor thread is probing at any time, also when
\* stop_monitoring is followed by start_monitoring before the old thread
\* wakes from its sleep.
C36_OneMonitorProbing == Cardinality(Probing) <= 1

Failures(r) == {i \in DOMAIN r.calls : r.calls[i] = "raise"}

\* C38: retry_with_backoff with max_retries = n >= 1 calls func at most n
\* times, returns the result of the first call that succeeds and calls func
\* no more, sleeps only between attempts, the k-th time for initial_backoff
\* times backoff_multiplier to the power k-1, and raises the exception of
\* the last attempt when all n fail; with n = 0 it returns None without
\* calling func.
C38_RetryBounded ==
    LET n == retry.max_retries
        calls == retry.calls
        sleeps == retry.sleeps
    IN /\ Len(calls) <= n
       /\ \A i \in DOMAIN calls : calls[i] = "ok" => i = Len(calls) /\ retry.pc = "done"
       /\ \A k \in DOMAIN sleeps :
            sleeps[k] = retry.initial_backoff * retry.backoff_multiplier ^ (k - 1)
       /\ Len(sleeps) <= Len(calls)
       /\ retry.pc = "call" => Len(sleeps) = Len(calls)
       /\ retry.pc = "done" =>
            /\ n >= 1 => Len(calls) >= 1 /\ Len(sleeps) = Len(calls) - 1
            /\ n = 0 => calls = <<>> /\ retry.ret = [kind |-> "return", attempt |-> 0]
            /\ retry.ret.kind = "return" /\ n >= 1 =>
                 /\ retry.ret.attempt = Len(calls)
                 /\ calls[Len(calls)] = "ok"
            /\ retry.ret.kind = "raise" =>
                 /\ Len(calls) = n
                 /\ Failures(retry) = 1..n
                 /\ retry.ret.attempt = n
            /\ n >= 1 /\ Failures(retry) = 1..n => retry.ret.kind = "raise"

\* A call with max_retries = 3 failed three times: it slept twice, no more
\* after the last failure, and raised the exception of the third attempt.
C38_Witness ==
    /\ retry.pc = "done"
    /\ retry.max_retries = 3
    /\ retry.calls = <<"raise", "raise", "raise">>
    /\ Len(retry.sleeps) = 2
    /\ retry.sleeps[2] = retry.initial_backoff * retry.backoff_multiplier
    /\ retry.ret = [kind |-> "raise", attempt |-> 3]

====
